---- MODULE Spec2Model ----
(***************************************************************************)
(* Quote engine of the funkybit API client: fee arithmetic (fees.ts),      *)
(* order-book walking (clob.ts), AMM pricing and the two-hop composer      *)
(* (quotes.ts).  The functions are pure; each specification below draws    *)
(* the inputs of a call in Init and has one action per function applied.   *)
(*                                                                         *)
(* bigint values are TLA+ integers.  A function's outcome is a record:     *)
(*   [tag |-> "value", val |-> v]   a returned bigint                      *)
(*   [tag |-> "null",  val |-> 0]   a returned null                        *)
(*   [tag |-> "throw", val |-> 0]   a thrown RangeError                    *)
(***************************************************************************)
EXTENDS Integers, Sequences, FiniteSets, TLC

VARIABLES inputs, op, result, prior

vars == <<inputs, op, result, prior>>

----------------------------------------------------------------------------
(* Outcomes *)

Value(v) == [tag |-> "value", val |-> v]

Null == [tag |-> "null", val |-> 0]

Thrown == [tag |-> "throw", val |-> 0]

NoResult == [tag |-> "none", val |-> 0]

----------------------------------------------------------------------------
(* bigint helpers *)

\* src/utils.ts absBigInt
absBigInt(value) == IF value < 0 THEN -value ELSE value

\* src/utils.ts minBigInt
minBigInt(a, b) == IF a <= b THEN a ELSE b

\* JavaScript bigint division: the quotient is truncated toward zero.
\* The divisor is not zero (a zero divisor throws; callers test it first).
BigIntDiv(a, b) ==
    LET q == absBigInt(a) \div absBigInt(b)
    IN  IF (a < 0) = (b < 0) THEN q ELSE -q

RECURSIVE Pow10(_)
\* Math.pow(10, decimals) / new Decimal(10).pow(decimals)
Pow10(decimals) == IF decimals = 0 THEN 1 ELSE 10 * Pow10(decimals - 1)

----------------------------------------------------------------------------
(* Fee arithmetic: fees.ts *)

FEE_RATE_PIPS_MAX_VALUE == 1000000

\* A fee rate is either a bigint number of pips or a Decimal fraction.  A
\* Decimal d is held as the integer d * 10^7 (tenths of a pip), so that the
\* floor taken by feeRateToBigInt is a real rounding step.
DecimalFeeUnitsPerPip == 10

PipsFee(pips) == [type |-> "bigint", value |-> pips]

DecimalFee(tenthPips) == [type |-> "Decimal", value |-> tenthPips]

\* new Decimal(FEE_RATE_PIPS_MAX_VALUE).mul(feeRate).floor() for a Decimal,
\* the bigint itself otherwise.
feeRateToBigInt(feeRate) ==
    IF feeRate.type = "Decimal"
    THEN feeRate.value \div DecimalFeeUnitsPerPip
    ELSE feeRate.value

\* The mutant rounds the quotient down (toward minus infinity).
calculateFee_Floors(notional, feeRate) ==
    (notional * feeRateToBigInt(feeRate)) \div FEE_RATE_PIPS_MAX_VALUE

calculateFee(notional, feeRate) ==
    BigIntDiv(notional * feeRateToBigInt(feeRate), FEE_RATE_PIPS_MAX_VALUE)

adjustQuoteToExcludeFee(notional, feeRate) ==
    BigIntDiv(notional * FEE_RATE_PIPS_MAX_VALUE,
              FEE_RATE_PIPS_MAX_VALUE + feeRateToBigInt(feeRate))

\* The mutant divides by (MAX - fee), as adjustQuoteToIncludeFee does.
adjustQuoteToIncludeFee_DivisorPlus(quoteAmount, feeRate) ==
    Value(BigIntDiv(quoteAmount * FEE_RATE_PIPS_MAX_VALUE,
                    FEE_RATE_PIPS_MAX_VALUE + feeRateToBigInt(feeRate)))

\* The mutant rejects every fee rate of 100% or more.
adjustQuoteToIncludeFee_Validating(quoteAmount, feeRate) ==
    IF feeRateToBigInt(feeRate) >= FEE_RATE_PIPS_MAX_VALUE
    THEN Thrown
    ELSE Value(BigIntDiv(quoteAmount * FEE_RATE_PIPS_MAX_VALUE,
                         FEE_RATE_PIPS_MAX_VALUE - feeRateToBigInt(feeRate)))

\* bigint division by 0n throws a RangeError; any other divisor, negative
\* ones included, yields a quotient.
adjustQuoteToIncludeFee(quoteAmount, feeRate) ==
    LET divisor == FEE_RATE_PIPS_MAX_VALUE - feeRateToBigInt(feeRate)
    IN  IF divisor = 0
        THEN Thrown
        ELSE Value(BigIntDiv(quoteAmount * FEE_RATE_PIPS_MAX_VALUE, divisor))

----------------------------------------------------------------------------
(* Order-book walking: clob.ts *)

\* An order book level carries its price as a decimal string and its size as
\* a number.  Both are held as integers counting units of
\* 10^-LevelFractionDigits, so that parseUnits to the symbol's decimals is a
\* real conversion (it rounds half up when the symbol has fewer decimals).
LevelFractionDigits == 2

\* viem's parseUnits(value, decimals) on a value with LevelFractionDigits
\* fraction digits.
parseUnits(raw, decimals) ==
    IF decimals >= LevelFractionDigits
    THEN raw * Pow10(decimals - LevelFractionDigits)
    ELSE LET unit == Pow10(LevelFractionDigits - decimals)
         IN  (raw + unit \div 2) \div unit

\* The mutant leaves the order of the array as it is.
toReversed_SameOrder(array) == array

RECURSIVE toReversed(_)
\* Array.prototype.toReversed
toReversed(array) ==
    IF array = <<>>
    THEN <<>>
    ELSE Append(toReversed(Tail(array)), Head(array))

\* levels.map(l => ({size: parseUnits(...), price: parseUnits(...)}))
parseLevels(levels, market) ==
    [i \in 1 .. Len(levels) |->
        [size |-> parseUnits(levels[i].size, market.baseSymbol.decimals),
         price |-> parseUnits(levels[i].price, market.quoteSymbol.decimals)]]

\* src/utils.ts calculateNotional
calculateNotional(price, baseAmount, baseSymbol) ==
    BigIntDiv(price * baseAmount, Pow10(baseSymbol.decimals))

\* Decimal(notional) / Decimal(price) * 10^decimals, then ceil ("Up") or
\* floor ("Down").  A zero price gives NaN or Infinity, and BigInt() of that
\* throws.  notional is not negative here.  The division's rounding at the
\* 20th digit does not change the ceil or floor for amounts of fewer than ten
\* digits: a quotient that scales to an integer is exact, and any other is
\* further than 1 / price from one.
baseAmountFromNotionalAndPrice(notional, price, baseSymbol, roundingMode) ==
    IF price = 0
    THEN Thrown
    ELSE LET scaled == notional * Pow10(baseSymbol.decimals)
         IN  IF roundingMode = "Up"
             THEN Value((scaled + price - 1) \div price)
             ELSE Value(scaled \div price)

\* The mutant tests the exhaustion of the book with >= instead of >.
bookExhausted_AtZero(remaining) == remaining >= 0

\* After the loop: "if (remaining > 0n) return null".
bookExhausted(remaining) == remaining > 0

RECURSIVE walkForQuoteAmount(_, _, _, _, _)
\* The loop of baseAmountToSellToGetQuoteAmountAtClobMarket and of
\* baseAmountToGetForQuoteAmountAtClobMarket, which differ in the rounding
\* mode only: levels are popped from the end of the array.
walkForQuoteAmount(levels, remainingQuote, baseAmount, market, roundingMode) ==
    IF Len(levels) > 0
    THEN LET level == levels[Len(levels)]
             popped == SubSeq(levels, 1, Len(levels) - 1)
             notionalAtLevel ==
                 calculateNotional(level.price, level.size, market.baseSymbol)
         IN  IF notionalAtLevel >= remainingQuote
             THEN LET partial ==
                          baseAmountFromNotionalAndPrice(
                              remainingQuote, level.price, market.baseSymbol,
                              roundingMode)
                  IN  IF partial.tag = "throw"
                      THEN Thrown
                      ELSE Value(baseAmount + partial.val)
             ELSE walkForQuoteAmount(popped, remainingQuote - notionalAtLevel,
                                     baseAmount + level.size, market,
                                     roundingMode)
    ELSE IF bookExhausted(remainingQuote)
         THEN Null
         ELSE Value(baseAmount)

\* The mutant rounds the partially consumed level down.
baseAmountToSellToGetQuoteAmountAtClobMarket_RoundsDown(quoteAmount, market, orderBook, feeRates) ==
    LET levels == parseLevels(toReversed(orderBook.buy), market)
        remainingQuote ==
            adjustQuoteToIncludeFee(quoteAmount, PipsFee(feeRates.taker))
    IN  IF remainingQuote.tag = "throw"
        THEN Thrown
        ELSE walkForQuoteAmount(levels, remainingQuote.val, 0, market, "Down")

baseAmountToSellToGetQuoteAmountAtClobMarket(quoteAmount, market, orderBook, feeRates) ==
    LET levels == parseLevels(toReversed(orderBook.buy), market)
        remainingQuote ==
            adjustQuoteToIncludeFee(quoteAmount, PipsFee(feeRates.taker))
    IN  IF remainingQuote.tag = "throw"
        THEN Thrown
        ELSE walkForQuoteAmount(levels, remainingQuote.val, 0, market, "Up")

\* The mutant rounds the partially consumed level up.
baseAmountToGetForQuoteAmountAtClobMarket_RoundsUp(quoteAmount, market, orderBook, feeRates) ==
    LET levels == parseLevels(orderBook.sell, market)
        remainingQuote ==
            adjustQuoteToExcludeFee(quoteAmount, PipsFee(feeRates.taker))
    IN  walkForQuoteAmount(levels, remainingQuote, 0, market, "Up")

baseAmountToGetForQuoteAmountAtClobMarket(quoteAmount, market, orderBook, feeRates) ==
    LET levels == parseLevels(orderBook.sell, market)
        remainingQuote ==
            adjustQuoteToExcludeFee(quoteAmount, PipsFee(feeRates.taker))
    IN  walkForQuoteAmount(levels, remainingQuote, 0, market, "Down")

RECURSIVE walkForBaseAmount(_, _, _, _)
\* The loop of quoteAmountToGetFromSellingBaseAmountAtClobMarket; the result
\* is <<remainingBaseAmount, quoteAmount>> at the loop's exit.
walkForBaseAmount(levels, remainingBaseAmount, quoteAmount, market) ==
    IF Len(levels) > 0
    THEN LET level == levels[Len(levels)]
             popped == SubSeq(levels, 1, Len(levels) - 1)
         IN  IF level.size < remainingBaseAmount
             THEN walkForBaseAmount(
                      popped, remainingBaseAmount - level.size,
                      quoteAmount + calculateNotional(level.price, level.size,
                                                      market.baseSymbol),
                      market)
             ELSE <<0, quoteAmount + calculateNotional(level.price,
                                                       remainingBaseAmount,
                                                       market.baseSymbol)>>
    ELSE <<remainingBaseAmount, quoteAmount>>

quoteAmountToGetFromSellingBaseAmountAtClobMarket(baseAmount, market, orderBook, feeRates) ==
    LET levels == parseLevels(toReversed(orderBook.buy), market)
        walked == walkForBaseAmount(levels, baseAmount, 0, market)
        remainingBaseAmount == walked[1]
        quoteAmount == walked[2]
    IN  IF bookExhausted(remainingBaseAmount)
        THEN Null
        ELSE Value(quoteAmount
                     - calculateFee(quoteAmount, PipsFee(feeRates.taker)))

----------------------------------------------------------------------------
(* AMM pricing: quotes.ts *)

\* A LiquidityAdjustmentEstimate or LiquidityPoolTradeEstimate that is null.
NullEstimate == [tag |-> "null"]

\* floor of a quotient of integers, as Decimal.floor() takes it.
FloorDiv(n, d) == IF d > 0 THEN n \div d ELSE (-n) \div (-d)

\* The mutant leaves out the +1 of the quote delta.
estimatePoolBaseLiquidityAdjustment_NoBias(lp, baseDelta) ==
    LET newBaseLiquidity == lp.baseLiquidity + baseDelta
        product == lp.baseLiquidity * lp.quoteLiquidity
    IN  IF newBaseLiquidity <= 0
        THEN NullEstimate
        ELSE LET newQuoteLiquidity == BigIntDiv(product, newBaseLiquidity)
                 quoteDelta == newQuoteLiquidity - lp.quoteLiquidity
             IN  IF newQuoteLiquidity = 0
                 THEN NullEstimate
                 ELSE [tag |-> "value",
                       baseDelta |-> baseDelta,
                       quoteDelta |-> quoteDelta,
                       fee |-> calculateFee(quoteDelta, lp.feeRate)]

\* The mutant adds the +1 only when the division leaves a remainder.
estimatePoolBaseLiquidityAdjustment_BiasWhenInexact(lp, baseDelta) ==
    LET newBaseLiquidity == lp.baseLiquidity + baseDelta
        product == lp.baseLiquidity * lp.quoteLiquidity
    IN  IF newBaseLiquidity <= 0
        THEN NullEstimate
        ELSE LET newQuoteLiquidity == BigIntDiv(product, newBaseLiquidity)
                 bias == IF newQuoteLiquidity * newBaseLiquidity = product
                         THEN 0
                         ELSE 1
                 quoteDelta == newQuoteLiquidity - lp.quoteLiquidity + bias
             IN  IF newQuoteLiquidity = 0
                 THEN NullEstimate
                 ELSE [tag |-> "value",
                       baseDelta |-> baseDelta,
                       quoteDelta |-> quoteDelta,
                       fee |-> calculateFee(quoteDelta, lp.feeRate)]

estimatePoolBaseLiquidityAdjustment(lp, baseDelta) ==
    LET newBaseLiquidity == lp.baseLiquidity + baseDelta
        product == lp.baseLiquidity * lp.quoteLiquidity
    IN  IF newBaseLiquidity <= 0
        THEN NullEstimate
        ELSE LET newQuoteLiquidity == BigIntDiv(product, newBaseLiquidity)
                 quoteDelta == newQuoteLiquidity - lp.quoteLiquidity + 1
             IN  IF newQuoteLiquidity = 0
                 THEN NullEstimate
                 ELSE [tag |-> "value",
                       baseDelta |-> baseDelta,
                       quoteDelta |-> quoteDelta,
                       fee |-> calculateFee(quoteDelta, lp.feeRate)]

\* The search interval [left, right] the binary search starts from.
searchInterval(baseDeltaRoughEstimateAbsoluteValue, actualQuoteDelta, quoteDelta) ==
    IF actualQuoteDelta < quoteDelta
    THEN <<baseDeltaRoughEstimateAbsoluteValue,
           baseDeltaRoughEstimateAbsoluteValue * 2>>
    ELSE <<BigIntDiv(baseDeltaRoughEstimateAbsoluteValue, 2),
           baseDeltaRoughEstimateAbsoluteValue>>

\* The mutant records an acceptable estimate without moving left up to
\* middle.
searchStep_KeepsLeft(lp, quoteDelta, s) ==
    LET middle == BigIntDiv(s.left + s.right, 2)
        estimate == estimatePoolBaseLiquidityAdjustment(lp, -middle)
    IN  IF estimate.tag = "null"
        THEN [s EXCEPT !.pc = "returnNull"]
        ELSE IF estimate.quoteDelta = quoteDelta
        THEN [s EXCEPT !.lastAcceptableEstimate = estimate, !.pc = "break"]
        ELSE IF estimate.quoteDelta < quoteDelta
        THEN [s EXCEPT !.lastAcceptableEstimate = estimate]
        ELSE [s EXCEPT !.right = middle]

\* One iteration of "while (right - left > 1n)": s holds left, right,
\* lastAcceptableEstimate and where control goes next ("loop", "break",
\* "returnNull").
searchStep(lp, quoteDelta, s) ==
    LET middle == BigIntDiv(s.left + s.right, 2)
        estimate == estimatePoolBaseLiquidityAdjustment(lp, -middle)
    IN  IF estimate.tag = "null"
        THEN [s EXCEPT !.pc = "returnNull"]
        ELSE IF estimate.quoteDelta = quoteDelta
        THEN [s EXCEPT !.lastAcceptableEstimate = estimate, !.pc = "break"]
        ELSE IF estimate.quoteDelta < quoteDelta
        THEN [s EXCEPT !.lastAcceptableEstimate = estimate, !.left = middle]
        ELSE [s EXCEPT !.right = middle]

RECURSIVE binarySearch_ReturnsRight(_, _, _)
\* The mutant returns the right end of the final interval instead of the
\* last acceptable estimate.
binarySearch_ReturnsRight(lp, quoteDelta, s) ==
    IF s.pc = "returnNull"
    THEN Null
    ELSE IF s.pc = "loop" /\ s.right - s.left > 1
    THEN binarySearch_ReturnsRight(lp, quoteDelta,
                                   searchStep(lp, quoteDelta, s))
    ELSE IF s.pc = "break"
         THEN Value(absBigInt(s.lastAcceptableEstimate.baseDelta))
         ELSE Value(s.right)

RECURSIVE binarySearch(_, _, _)
\* The loop and the return that follows it.
binarySearch(lp, quoteDelta, s) ==
    IF s.pc = "returnNull"
    THEN Null
    ELSE IF s.pc = "loop" /\ s.right - s.left > 1
    THEN binarySearch(lp, quoteDelta, searchStep(lp, quoteDelta, s))
    ELSE IF s.lastAcceptableEstimate.tag = "null"
         THEN Null
         ELSE Value(absBigInt(s.lastAcceptableEstimate.baseDelta))

\* quoteDelta = -lp.quoteLiquidity makes the first division throw.
baseAmountToRemoveToIncreasePoolQuoteByDelta(lp, quoteDelta) ==
    LET newQuoteLiquidity == lp.quoteLiquidity + quoteDelta
        product == lp.baseLiquidity * lp.quoteLiquidity
    IN  IF newQuoteLiquidity = 0
        THEN Thrown
        ELSE
        LET newBaseLiquidity == BigIntDiv(product, newQuoteLiquidity)
            baseDeltaRoughEstimate == newBaseLiquidity - lp.baseLiquidity
            actual == estimatePoolBaseLiquidityAdjustment(
                          lp, baseDeltaRoughEstimate)
            baseDeltaRoughEstimateAbsoluteValue ==
                absBigInt(baseDeltaRoughEstimate)
        IN  IF newBaseLiquidity = 0
            THEN Null
            ELSE IF actual.tag = "null"
            THEN Null
            ELSE IF actual.quoteDelta = quoteDelta
            THEN Value(baseDeltaRoughEstimateAbsoluteValue)
            ELSE LET interval ==
                         searchInterval(baseDeltaRoughEstimateAbsoluteValue,
                                        actual.quoteDelta, quoteDelta)
                 IN  binarySearch(lp, quoteDelta,
                                  [left |-> interval[1],
                                   right |-> interval[2],
                                   lastAcceptableEstimate |-> NullEstimate,
                                   pc |-> "loop"])

RECURSIVE possibleTrades(_, _, _)
\* The possibleTrades array built by the first forEach of getCpBestBuyEstimate
\* (side "Buy", baseDelta = -buyAmount) and of getCpBestSellEstimate (side
\* "Sell", baseDelta = sellAmount).
possibleTrades(liquidityPools, baseDelta, side) ==
    IF liquidityPools = <<>>
    THEN <<>>
    ELSE LET pool == Head(liquidityPools)
             estimate == estimatePoolBaseLiquidityAdjustment(pool, baseDelta)
             rest == possibleTrades(Tail(liquidityPools), baseDelta, side)
         IN  IF estimate.tag = "null"
             THEN rest
             ELSE IF side = "Buy"
             THEN <<[tag |-> "value",
                     pool |-> pool,
                     baseAmount |-> absBigInt(estimate.baseDelta),
                     notional |-> estimate.quoteDelta,
                     fee |-> estimate.fee,
                     side |-> "Buy"]>> \o rest
             ELSE <<[tag |-> "value",
                     pool |-> pool,
                     baseAmount |-> estimate.baseDelta,
                     notional |-> absBigInt(estimate.quoteDelta),
                     fee |-> absBigInt(estimate.fee),
                     side |-> "Sell"]>> \o rest

\* The mutant keeps the more expensive trade.
buyTradeIsBetter_Greater(trade, bestTrade) ==
    trade.notional + trade.fee > bestTrade.notional + bestTrade.fee

\* getCpBestBuyEstimate's test for replacing bestTrade.
buyTradeIsBetter(trade, bestTrade) ==
    trade.notional + trade.fee < bestTrade.notional + bestTrade.fee

\* getCpBestSellEstimate's test for replacing bestTrade.
sellTradeIsBetter(trade, bestTrade) ==
    trade.notional + trade.fee > bestTrade.notional - bestTrade.fee

RECURSIVE selectBestTrade(_, _, _)
\* The second forEach: bestTrade starts as possibleTrades[0] and every trade,
\* the first included, is compared with it in array order.
selectBestTrade(trades, bestTrade, side) ==
    IF trades = <<>>
    THEN bestTrade
    ELSE LET trade == Head(trades)
             better == IF side = "Buy"
                       THEN buyTradeIsBetter(trade, bestTrade)
                       ELSE sellTradeIsBetter(trade, bestTrade)
         IN  selectBestTrade(Tail(trades),
                             IF better THEN trade ELSE bestTrade, side)

getCpBestBuyEstimate(buyAmount, ammState) ==
    LET trades == possibleTrades(ammState.liquidityPools, -buyAmount, "Buy")
    IN  IF Len(trades) = 0
        THEN NullEstimate
        ELSE selectBestTrade(trades, trades[1], "Buy")

getCpBestSellEstimate(sellAmount, ammState) ==
    LET trades == possibleTrades(ammState.liquidityPools, sellAmount, "Sell")
    IN  IF Len(trades) = 0
        THEN NullEstimate
        ELSE selectBestTrade(trades, trades[1], "Sell")

\* decimal.js rounds the result of every arithmetic operation to
\* Decimal.precision significant digits, half away from zero; the repository
\* never changes the library's default precision of 20.
DecimalPrecision == 20

\* A Decimal: its sign, the digits of its coefficient (most significant
\* first, without leading zeros; <<>> is zero) and the exponent of its last
\* digit.
Dec(neg, digits, e) == [neg |-> neg, digits |-> digits, e |-> e]

RECURSIVE IntDigits(_)
\* The digits of a non-negative integer.
IntDigits(n) == IF n = 0 THEN <<>> ELSE Append(IntDigits(n \div 10), n % 10)

RECURSIVE DigitsInt(_)
\* The integer with these digits.
DigitsInt(digits) ==
    IF digits = <<>>
    THEN 0
    ELSE DigitsInt(SubSeq(digits, 1, Len(digits) - 1)) * 10
           + digits[Len(digits)]

RECURSIVE StripLeadingZeros(_)
StripLeadingZeros(digits) ==
    IF digits # <<>> /\ Head(digits) = 0
    THEN StripLeadingZeros(Tail(digits))
    ELSE digits

Zeros(n) == [i \in 1 .. n |-> 0]

RECURSIVE Increment(_)
\* digits + 1
Increment(digits) ==
    IF digits = <<>>
    THEN <<1>>
    ELSE LET n == Len(digits)
             front == SubSeq(digits, 1, n - 1)
         IN  IF digits[n] < 9
             THEN Append(front, digits[n] + 1)
             ELSE Append(Increment(front), 0)

RECURSIVE Decrement(_)
\* digits - 1, for digits that are not all zero
Decrement(digits) ==
    LET n == Len(digits)
        front == SubSeq(digits, 1, n - 1)
    IN  IF digits[n] > 0
        THEN Append(front, digits[n] - 1)
        ELSE Append(Decrement(front), 9)

\* The rounding decimal.js applies to the exact result of an operation.
RoundToPrecision(d) ==
    LET n == Len(d.digits)
    IN  IF n <= DecimalPrecision
        THEN d
        ELSE LET kept == SubSeq(d.digits, 1, DecimalPrecision)
             IN  Dec(d.neg,
                     IF d.digits[DecimalPrecision + 1] >= 5
                     THEN Increment(kept)
                     ELSE kept,
                     d.e + (n - DecimalPrecision))

RECURSIVE QuotientDigits(_, _, _, _)
\* Long division: the significant digits of a quotient, one more than the
\* precision at most, from the integer part acc and the remainder rem.
QuotientDigits(rem, divisor, acc, e) ==
    IF rem = 0 \/ Len(acc) > DecimalPrecision
    THEN Dec(FALSE, acc, e)
    ELSE LET digit == (rem * 10) \div divisor
         IN  QuotientDigits((rem * 10) % divisor, divisor,
                            IF acc = <<>> /\ digit = 0
                            THEN acc
                            ELSE Append(acc, digit),
                            e - 1)

\* Decimal.div of two non-negative values whose quotient is n / divisor.
DecimalDiv(n, divisor) ==
    RoundToPrecision(
        QuotientDigits(n % divisor, divisor, IntDigits(n \div divisor), 0))

RECURSIVE MulDigits(_, _, _)
\* digits * k + carry
MulDigits(digits, k, carry) ==
    IF digits = <<>>
    THEN IntDigits(carry)
    ELSE LET n == Len(digits)
             prod == digits[n] * k + carry
         IN  Append(MulDigits(SubSeq(digits, 1, n - 1), k, prod \div 10),
                    prod % 10)

\* Decimal.mul of d by the non-negative value k * 10^e.
DecimalMul(d, k, e) ==
    RoundToPrecision(
        Dec(d.neg, StripLeadingZeros(MulDigits(d.digits, k, 0)), d.e + e))

\* Decimal.plus of d and 10^p.
DecimalPlusPow10(d, p) ==
    LET aligned == IF p < d.e THEN d.digits \o Zeros(d.e - p) ELSE d.digits
        e == IF p < d.e THEN p ELSE d.e
        pos == p - e
        padded == IF Len(aligned) > pos
                  THEN aligned
                  ELSE Zeros(pos + 1 - Len(aligned)) \o aligned
        n == Len(padded)
        high == SubSeq(padded, 1, n - pos)
        low == SubSeq(padded, n - pos + 1, n)
    IN  IF ~d.neg
        THEN RoundToPrecision(
                 Dec(FALSE, StripLeadingZeros(Increment(high) \o low), e))
        ELSE IF Len(aligned) > pos
        THEN RoundToPrecision(
                 Dec(TRUE, StripLeadingZeros(Decrement(high) \o low), e))
        ELSE RoundToPrecision(
                 Dec(FALSE,
                     StripLeadingZeros(Increment([i \in 1 .. pos |->
                                                      9 - low[i]])),
                     e))

\* scaledDecimalToBigint(d, k): BigInt(d.mul(10^k).floor().toFixed(0))
DecimalFloorScaled(d, k) ==
    LET e == d.e + k
        n == Len(d.digits)
        keep == IF n + e > 0 THEN n + e ELSE 0
        whole == DigitsInt(SubSeq(d.digits, 1, keep))
        fraction == \E i \in keep + 1 .. n : d.digits[i] # 0
    IN  IF e >= 0
        THEN (IF d.neg THEN -1 ELSE 1) * DigitsInt(d.digits) * Pow10(e)
        ELSE IF d.neg
        THEN -(whole + IF fraction THEN 1 ELSE 0)
        ELSE whole

\* The mutant adds the amount to the virtual base reserves instead of
\* subtracting it.
bondingCurveCostFor_AddsAmount(amount, market, bondingCurve) ==
    LET denominator == bondingCurve.virtualBaseReserves + amount
        baseDecimals == market.baseSymbol.decimals
        quoteDecimals == market.quoteSymbol.decimals
        quotient ==
            DecimalDiv(bondingCurve.virtualQuoteReserves * Pow10(baseDecimals),
                       absBigInt(denominator) * Pow10(quoteDecimals))
        ratio == Dec(denominator < 0, quotient.digits, quotient.e)
        product == DecimalMul(ratio, absBigInt(amount), -baseDecimals)
        sum == DecimalPlusPow10(product, -baseDecimals)
    IN  IF denominator = 0
        THEN Thrown
        ELSE Value(DecimalFloorScaled(sum, quoteDecimals))

\* amount is the signed base amount in base units (positive: bought out of
\* the curve).  The Decimal expression
\*   |amount| * (virtualQuote / (virtualBase - amount)) + 1 / 10^baseDecimals
\* is followed operation by operation, each rounded to DecimalPrecision
\* digits; the scaled reserves and amount themselves are exact (they have
\* fewer digits).  A zero denominator gives Infinity or NaN, and BigInt() of
\* that throws.
bondingCurveCostFor(amount, market, bondingCurve) ==
    LET denominator == bondingCurve.virtualBaseReserves - amount
        baseDecimals == market.baseSymbol.decimals
        quoteDecimals == market.quoteSymbol.decimals
        quotient ==
            DecimalDiv(bondingCurve.virtualQuoteReserves * Pow10(baseDecimals),
                       absBigInt(denominator) * Pow10(quoteDecimals))
        ratio == Dec(denominator < 0, quotient.digits, quotient.e)
        product == DecimalMul(ratio, absBigInt(amount), -baseDecimals)
        sum == DecimalPlusPow10(product, -baseDecimals)
    IN  IF denominator = 0
        THEN Thrown
        ELSE Value(DecimalFloorScaled(sum, quoteDecimals))

----------------------------------------------------------------------------
(* Two-hop composer: quotes.ts *)

\* adapterMarketState = null
NoAdapter == [present |-> FALSE]

AdapterMarketState(market, orderBook, feeRates) ==
    [present |-> TRUE, market |-> market, orderBook |-> orderBook,
     feeRates |-> feeRates]

\* The mutant costs the requested amount, not clamped to the real reserves.
ammQuoteRequiredForBuyingBase_Unclamped(baseAmount, market, ammState) ==
    IF ammState.type = "BondingCurve"
    THEN LET cost == bondingCurveCostFor(baseAmount, market, ammState)
         IN  IF cost.tag = "throw"
             THEN Thrown
             ELSE Value(cost.val + calculateFee(cost.val, ammState.feeRate))
    ELSE LET bestBuyEstimate == getCpBestBuyEstimate(baseAmount, ammState)
         IN  IF bestBuyEstimate.tag = "null"
             THEN Null
             ELSE Value(bestBuyEstimate.notional + bestBuyEstimate.fee)

\* The mutant takes the larger of the requested amount and the real reserves.
ammQuoteRequiredForBuyingBase_ClampsUp(baseAmount, market, ammState) ==
    IF ammState.type = "BondingCurve"
    THEN LET safeAmount == IF baseAmount < ammState.realBaseReserves
                           THEN ammState.realBaseReserves
                           ELSE baseAmount
             cost == bondingCurveCostFor(safeAmount, market, ammState)
         IN  IF cost.tag = "throw"
             THEN Thrown
             ELSE Value(cost.val + calculateFee(cost.val, ammState.feeRate))
    ELSE LET bestBuyEstimate == getCpBestBuyEstimate(baseAmount, ammState)
         IN  IF bestBuyEstimate.tag = "null"
             THEN Null
             ELSE Value(bestBuyEstimate.notional + bestBuyEstimate.fee)

\* The switch of quoteAmountRequiredForBuyingBaseIncludingFee: quoteRequired,
\* or Null for the ConstantProduct early return.
ammQuoteRequiredForBuyingBase(baseAmount, market, ammState) ==
    IF ammState.type = "BondingCurve"
    THEN LET safeAmount == IF baseAmount > ammState.realBaseReserves
                           THEN ammState.realBaseReserves
                           ELSE baseAmount
             cost == bondingCurveCostFor(safeAmount, market, ammState)
         IN  IF cost.tag = "throw"
             THEN Thrown
             ELSE Value(cost.val + calculateFee(cost.val, ammState.feeRate))
    ELSE LET bestBuyEstimate == getCpBestBuyEstimate(baseAmount, ammState)
         IN  IF bestBuyEstimate.tag = "null"
             THEN Null
             ELSE Value(bestBuyEstimate.notional + bestBuyEstimate.fee)

\* The mutant falls back to the AMM quote when the order book cannot fill it.
quoteAmountRequiredForBuyingBaseIncludingFee_Fallback(baseAmount, market, ammState, adapterMarketState) ==
    IF baseAmount = 0
    THEN Value(0)
    ELSE LET quoteRequired ==
                 ammQuoteRequiredForBuyingBase(baseAmount, market, ammState)
             secondHop ==
                 baseAmountToSellToGetQuoteAmountAtClobMarket(
                     quoteRequired.val, adapterMarketState.market,
                     adapterMarketState.orderBook, adapterMarketState.feeRates)
         IN  IF quoteRequired.tag # "value"
             THEN quoteRequired
             ELSE IF adapterMarketState.present /\ secondHop.tag = "value"
             THEN secondHop
             ELSE quoteRequired

\* The mutant has no early return for a base amount of zero.
quoteAmountRequiredForBuyingBaseIncludingFee_NoEarlyReturn(baseAmount, market, ammState, adapterMarketState) ==
    LET quoteRequired ==
            ammQuoteRequiredForBuyingBase(baseAmount, market, ammState)
    IN  IF quoteRequired.tag # "value"
        THEN quoteRequired
        ELSE IF adapterMarketState.present
        THEN baseAmountToSellToGetQuoteAmountAtClobMarket(
                 quoteRequired.val, adapterMarketState.market,
                 adapterMarketState.orderBook, adapterMarketState.feeRates)
        ELSE quoteRequired

quoteAmountRequiredForBuyingBaseIncludingFee(baseAmount, market, ammState, adapterMarketState) ==
    IF baseAmount = 0
    THEN Value(0)
    ELSE LET quoteRequired ==
                 ammQuoteRequiredForBuyingBase(baseAmount, market, ammState)
         IN  IF quoteRequired.tag # "value"
             THEN quoteRequired
             ELSE IF adapterMarketState.present
             THEN baseAmountToSellToGetQuoteAmountAtClobMarket(
                      quoteRequired.val, adapterMarketState.market,
                      adapterMarketState.orderBook, adapterMarketState.feeRates)
             ELSE quoteRequired

\* The switch of quoteAmountMinusFeeToReceiveForSellingBase: quoteToReceive,
\* or Null for the ConstantProduct early return.
ammQuoteToReceiveForSellingBase(baseAmount, market, ammState) ==
    IF ammState.type = "BondingCurve"
    THEN LET cost == bondingCurveCostFor(-baseAmount, market, ammState)
         IN  IF cost.tag = "throw"
             THEN Thrown
             ELSE Value(cost.val - calculateFee(cost.val, ammState.feeRate))
    ELSE LET bestSellEstimate == getCpBestSellEstimate(baseAmount, ammState)
         IN  IF bestSellEstimate.tag = "null"
             THEN Null
             ELSE Value(absBigInt(bestSellEstimate.notional
                                    - bestSellEstimate.fee))

\* The mutant routes the sell through the bid side, as the buy does.
quoteAmountMinusFeeToReceiveForSellingBase_BidSide(baseAmount, market, ammState, adapterMarketState) ==
    IF baseAmount = 0
    THEN Value(0)
    ELSE LET quoteToReceive ==
                 ammQuoteToReceiveForSellingBase(baseAmount, market, ammState)
         IN  IF quoteToReceive.tag # "value"
             THEN quoteToReceive
             ELSE IF adapterMarketState.present
             THEN baseAmountToSellToGetQuoteAmountAtClobMarket(
                      quoteToReceive.val, adapterMarketState.market,
                      adapterMarketState.orderBook, adapterMarketState.feeRates)
             ELSE quoteToReceive

quoteAmountMinusFeeToReceiveForSellingBase(baseAmount, market, ammState, adapterMarketState) ==
    IF baseAmount = 0
    THEN Value(0)
    ELSE LET quoteToReceive ==
                 ammQuoteToReceiveForSellingBase(baseAmount, market, ammState)
         IN  IF quoteToReceive.tag # "value"
             THEN quoteToReceive
             ELSE IF adapterMarketState.present
             THEN baseAmountToGetForQuoteAmountAtClobMarket(
                      quoteToReceive.val, adapterMarketState.market,
                      adapterMarketState.orderBook, adapterMarketState.feeRates)
             ELSE quoteToReceive

RECURSIVE largestPoolEstimate_StopsAtNull(_, _, _)
\* The mutant ends the aggregation at the first pool whose estimate is null.
largestPoolEstimate_StopsAtNull(liquidityPools, actualQuoteAmount, largestBaseAmount) ==
    IF liquidityPools = <<>>
    THEN Value(largestBaseAmount)
    ELSE LET pool == Head(liquidityPools)
             estimate == baseAmountToRemoveToIncreasePoolQuoteByDelta(
                             pool,
                             adjustQuoteToExcludeFee(actualQuoteAmount,
                                                     pool.feeRate))
         IN  IF estimate.tag # "value"
             THEN Value(largestBaseAmount)
             ELSE largestPoolEstimate_StopsAtNull(
                      Tail(liquidityPools), actualQuoteAmount,
                      IF estimate.val > largestBaseAmount
                      THEN estimate.val
                      ELSE largestBaseAmount)

RECURSIVE largestPoolEstimate(_, _, _)
\* The forEach of the ConstantProduct case: largestBaseAmount after the pools
\* from the head of liquidityPools on have been visited.
largestPoolEstimate(liquidityPools, actualQuoteAmount, largestBaseAmount) ==
    IF liquidityPools = <<>>
    THEN Value(largestBaseAmount)
    ELSE LET pool == Head(liquidityPools)
             estimate == baseAmountToRemoveToIncreasePoolQuoteByDelta(
                             pool,
                             adjustQuoteToExcludeFee(actualQuoteAmount,
                                                     pool.feeRate))
         IN  IF estimate.tag = "throw"
             THEN Thrown
             ELSE largestPoolEstimate(
                      Tail(liquidityPools), actualQuoteAmount,
                      IF estimate.tag = "value"
                             /\ estimate.val > largestBaseAmount
                      THEN estimate.val
                      ELSE largestBaseAmount)

\* The mutant returns the curve's base amount without the cap at the real
\* reserves.
ammBaseAmountToReceiveForSellingQuote_Uncapped(actualQuoteAmount, market, ammState) ==
    IF ammState.type = "BondingCurve"
    THEN LET quoteAmountLessFee ==
                 adjustQuoteToExcludeFee(actualQuoteAmount, ammState.feeRate)
             newQuoteReserves ==
                 ammState.virtualQuoteReserves + quoteAmountLessFee
         IN  IF newQuoteReserves = 0
             THEN Thrown
             ELSE Value(FloorDiv(ammState.virtualBaseReserves
                                   * quoteAmountLessFee,
                                 newQuoteReserves))
    ELSE LET largest == largestPoolEstimate(ammState.liquidityPools,
                                            actualQuoteAmount, 0)
         IN  IF largest.tag = "throw"
             THEN Thrown
             ELSE IF largest.val = 0 THEN Null ELSE largest

\* The switch of baseAmountToReceiveForSellingQuoteIncludingFee.  In the
\* BondingCurve case the scale factors of the Decimal expression cancel:
\*   floor((vb/10^bd - (vq/10^qd * vb/10^bd) / ((vq + q)/10^qd)) * 10^bd)
\*     = floor(vb * q / (vq + q))
\* with q = quoteAmountLessFee.  The only inexact Decimal operation is the
\* division, whose rounding at the 20th digit does not change the floor for
\* reserves of fewer than ten digits: a quotient whose scaled difference is
\* an integer is exact, and any other is further than 1 / (vq + q) from one.
ammBaseAmountToReceiveForSellingQuote(actualQuoteAmount, market, ammState) ==
    IF ammState.type = "BondingCurve"
    THEN LET quoteAmountLessFee ==
                 adjustQuoteToExcludeFee(actualQuoteAmount, ammState.feeRate)
             newQuoteReserves ==
                 ammState.virtualQuoteReserves + quoteAmountLessFee
         IN  IF newQuoteReserves = 0
             THEN Thrown
             ELSE LET rawBase ==
                          FloorDiv(ammState.virtualBaseReserves
                                     * quoteAmountLessFee,
                                   newQuoteReserves)
                  IN  Value(minBigInt(rawBase, ammState.realBaseReserves))
    ELSE LET largest == largestPoolEstimate(ammState.liquidityPools,
                                            actualQuoteAmount, 0)
         IN  IF largest.tag = "throw"
             THEN Thrown
             ELSE IF largest.val = 0 THEN Null ELSE largest

baseAmountToReceiveForSellingQuoteIncludingFee(quoteAmount, market, ammState, adapterMarketState) ==
    LET actualQuoteAmount ==
            IF adapterMarketState.present
            THEN quoteAmountToGetFromSellingBaseAmountAtClobMarket(
                     quoteAmount, adapterMarketState.market,
                     adapterMarketState.orderBook, adapterMarketState.feeRates)
            ELSE Value(quoteAmount)
    IN  IF actualQuoteAmount.tag # "value"
        THEN actualQuoteAmount
        ELSE ammBaseAmountToReceiveForSellingQuote(actualQuoteAmount.val,
                                                   market, ammState)

----------------------------------------------------------------------------
(* Specification of the fee functions *)

MaxNotional == 200

\* Fee rates in pips: below, at and above 100%.
FeeRatePips == {0, 1, 3000, 10000, 250000, 500000, 900000,
                FEE_RATE_PIPS_MAX_VALUE,
                FEE_RATE_PIPS_MAX_VALUE + 500000,
                2 * FEE_RATE_PIPS_MAX_VALUE}

\* Decimal fee rates in tenths of a pip: 0, 0.00005 %, 1.00005 %, 10 %.
FeeRateDecimals == {0, 5, 100005, 1000000}

FeeInputs ==
    [kind : {"fees"},
     notional : 0 .. MaxNotional,
     feeRate : {PipsFee(p) : p \in FeeRatePips}
               \cup {DecimalFee(d) : d \in FeeRateDecimals}]

InitFees ==
    /\ inputs \in FeeInputs
    /\ op = "none"
    /\ result = NoResult
    /\ prior = NoResult

CallCalculateFee ==
    /\ inputs.kind = "fees"
    /\ op = "none"
    /\ op' = "calculateFee"
    /\ result' = Value(calculateFee(inputs.notional, inputs.feeRate))
    /\ UNCHANGED <<inputs, prior>>

CallAdjustQuoteToExcludeFee ==
    /\ inputs.kind = "fees"
    /\ op = "none"
    /\ op' = "adjustQuoteToExcludeFee"
    /\ result' = Value(adjustQuoteToExcludeFee(inputs.notional, inputs.feeRate))
    /\ UNCHANGED <<inputs, prior>>

\* adjustQuoteToIncludeFee takes a bigint fee rate only.
CallAdjustQuoteToIncludeFee ==
    /\ inputs.kind = "fees"
    /\ inputs.feeRate.type = "bigint"
    /\ op = "none"
    /\ op' = "adjustQuoteToIncludeFee"
    /\ result' = adjustQuoteToIncludeFee(inputs.notional, inputs.feeRate)
    /\ UNCHANGED <<inputs, prior>>

\* The round trip, for a fee rate below 100%: the fee-inclusive amount is fed
\* to adjustQuoteToExcludeFee with the same fee rate.
CallExcludeFeeOfIncluded ==
    /\ inputs.kind = "fees"
    /\ op = "adjustQuoteToIncludeFee"
    /\ feeRateToBigInt(inputs.feeRate) < FEE_RATE_PIPS_MAX_VALUE
    /\ result.tag = "value"
    /\ op' = "excludeFeeOfIncluded"
    /\ prior' = result
    /\ result' = Value(adjustQuoteToExcludeFee(result.val, inputs.feeRate))
    /\ UNCHANGED inputs

NextFees ==
    \/ CallCalculateFee
    \/ CallAdjustQuoteToExcludeFee
    \/ CallAdjustQuoteToIncludeFee
    \/ CallExcludeFeeOfIncluded

SpecFees == InitFees /\ [][NextFees]_vars

----------------------------------------------------------------------------
(* Claims about the fee functions (checked under SpecFees) *)

FeeBelowMax == feeRateToBigInt(inputs.feeRate) < FEE_RATE_PIPS_MAX_VALUE

\* C1 as stated: for a non-negative notional and a fee rate below 1,000,000
\* pips, excluding the fee from the fee-inclusive amount gives notional - 1
\* or notional.
C1_RoundTripWithinOne ==
    (op = "excludeFeeOfIncluded" /\ FeeBelowMax)
        => result.val \in {inputs.notional - 1, inputs.notional}

\* C1 amended: the round trip never loses more than one unit and never
\* exceeds the fee-inclusive amount; it is exact at a zero fee rate.  (It can
\* exceed notional: the two adjustments divide by (1 - f) and by (1 + f).)
C1_RoundTripBounds ==
    (op = "excludeFeeOfIncluded" /\ FeeBelowMax)
        => /\ result.val >= inputs.notional - 1
           /\ result.val <= prior.val
           /\ (feeRateToBigInt(inputs.feeRate) = 0
                  => result.val = inputs.notional)

\* C1 witness: a round trip at a positive fee rate that loses exactly one unit.
C1_Witness ==
    /\ op = "excludeFeeOfIncluded"
    /\ FeeBelowMax
    /\ feeRateToBigInt(inputs.feeRate) > 0
    /\ inputs.notional > 0
    /\ result.val = inputs.notional - 1

\* floor(quoteAmount * 1,000,000 / (1,000,000 - feeRatePips))
IncludeFeeFloor ==
    (inputs.notional * FEE_RATE_PIPS_MAX_VALUE)
        \div (FEE_RATE_PIPS_MAX_VALUE - feeRateToBigInt(inputs.feeRate))

----------------------------------------------------------------------------
(* Specification of the single-pool functions *)

MaxBaseLiquidity == 24

MaxQuoteLiquidity == 24

MaxPoolAmount == 24

\* Decimal fee rates of a pool, in tenths of a pip: 0, 3.00005 %, 10 %.
PoolFeeRates == {DecimalFee(0), DecimalFee(300005), DecimalFee(1000000)}

\* baseLiquidity and quoteLiquidity are strictly positive in an active pool.
PoolInputs ==
    [kind : {"pool"},
     lp : [baseLiquidity : 1 .. MaxBaseLiquidity,
           quoteLiquidity : 1 .. MaxQuoteLiquidity,
           feeRate : PoolFeeRates],
     amount : 0 .. MaxPoolAmount]

InitPool ==
    /\ inputs \in PoolInputs
    /\ op = "none"
    /\ result = NoResult
    /\ prior = NoResult

\* estimatePoolBaseLiquidityAdjustment(lp, -amount): base leaves the pool.
CallEstimateRemoveBase ==
    /\ inputs.kind = "pool"
    /\ op = "none"
    /\ op' = "estimateRemoveBase"
    /\ result' = estimatePoolBaseLiquidityAdjustment(inputs.lp, -inputs.amount)
    /\ UNCHANGED <<inputs, prior>>

\* estimatePoolBaseLiquidityAdjustment(lp, amount): base enters the pool.
CallEstimateAddBase ==
    /\ inputs.kind = "pool"
    /\ op = "none"
    /\ op' = "estimateAddBase"
    /\ result' = estimatePoolBaseLiquidityAdjustment(inputs.lp, inputs.amount)
    /\ UNCHANGED <<inputs, prior>>

\* baseAmountToRemoveToIncreasePoolQuoteByDelta(lp, amount)
CallBaseAmountToRemove ==
    /\ inputs.kind = "pool"
    /\ op = "none"
    /\ op' = "baseAmountToRemoveToIncreasePoolQuoteByDelta"
    /\ result' = baseAmountToRemoveToIncreasePoolQuoteByDelta(inputs.lp,
                                                              inputs.amount)
    /\ UNCHANGED <<inputs, prior>>

NextPool ==
    \/ CallEstimateRemoveBase
    \/ CallEstimateAddBase
    \/ CallBaseAmountToRemove

SpecPool == InitPool /\ [][NextPool]_vars

----------------------------------------------------------------------------
(* Claims about the inverse of a single pool (checked under SpecPool) *)

\* The quote delta achieved by removing b of base from the pool of the call,
\* or -1 when removing b is infeasible.
AchievedQuoteDelta(b) ==
    LET e == estimatePoolBaseLiquidityAdjustment(inputs.lp, -b)
    IN  IF e.tag = "null" THEN -1 ELSE e.quoteDelta

\* Removing b of base is feasible and achieves a quote delta <= the target.
WithinTarget(b) ==
    /\ estimatePoolBaseLiquidityAdjustment(inputs.lp, -b).tag = "value"
    /\ AchievedQuoteDelta(b) <= inputs.amount

\* C4: whenever baseAmountToRemoveToIncreasePoolQuoteByDelta(pool, target)
\* returns a base amount b, removing b from the pool is feasible and the quote
\* delta it achieves does not exceed target.
C4_InverseNeverExceedsTarget ==
    (op = "baseAmountToRemoveToIncreasePoolQuoteByDelta"
        /\ result.tag = "value")
        => WithinTarget(result.val)

\* C4 witness: the binary search (not the exact first estimate) returned a
\* base amount that achieves strictly less than the target.
C4_Witness ==
    /\ op = "baseAmountToRemoveToIncreasePoolQuoteByDelta"
    /\ result.tag = "value"
    /\ result.val > 1
    /\ AchievedQuoteDelta(result.val) < inputs.amount
    /\ AchievedQuoteDelta(result.val) > 0

\* C5: whenever some positive base amount achieves a quote delta <= target,
\* baseAmountToRemoveToIncreasePoolQuoteByDelta returns the largest such
\* amount (and so does not return null).
C5_InverseReturnsLargest ==
    op = "baseAmountToRemoveToIncreasePoolQuoteByDelta"
        => LET candidates == {b \in 1 .. inputs.lp.baseLiquidity :
                                  WithinTarget(b)}
           IN  candidates # {}
                   => /\ result.tag = "value"
                      /\ result.val \in candidates
                      /\ \A b \in candidates : b <= result.val

EstimateOps == {"estimateRemoveBase", "estimateAddBase"}

\* baseLiquidity * quoteLiquidity of the pool before the trade.
PoolProduct == inputs.lp.baseLiquidity * inputs.lp.quoteLiquidity

\* floor(baseLiquidity * quoteLiquidity / newBaseLiquidity) for the estimate
\* in result.
FlooredQuoteLiquidity ==
    PoolProduct \div (inputs.lp.baseLiquidity + result.baseDelta)

\* C16 as stated: for every base delta for which
\* estimatePoolBaseLiquidityAdjustment succeeds, newBaseLiquidity *
\* newQuoteLiquidity >= baseLiquidity * quoteLiquidity, with newQuoteLiquidity
\* the floored quotient.
C16_ProductWithFlooredQuote ==
    (op \in EstimateOps /\ result.tag = "value")
        => (inputs.lp.baseLiquidity + result.baseDelta) * FlooredQuoteLiquidity
             >= PoolProduct

\* C16 amended: the product does not decrease when the post-trade quote
\* liquidity is quoteLiquidity + quoteDelta, the returned quoteDelta being one
\* more than the floored quotient less quoteLiquidity; with the floored
\* quotient itself the product does not increase.
C16_ProductNeverDecreases ==
    (op \in EstimateOps /\ result.tag = "value")
        => /\ result.quoteDelta
                = FlooredQuoteLiquidity - inputs.lp.quoteLiquidity + 1
           /\ (inputs.lp.baseLiquidity + result.baseDelta)
                * (inputs.lp.quoteLiquidity + result.quoteDelta)
                >= PoolProduct
           /\ (inputs.lp.baseLiquidity + result.baseDelta)
                * FlooredQuoteLiquidity
                <= PoolProduct

\* C16 witness: base leaves the pool and the quotient is not whole, so the
\* floored quotient alone would shrink the product.
C16_Witness ==
    /\ op = "estimateRemoveBase"
    /\ inputs.amount > 0
    /\ result.tag = "value"
    /\ (inputs.lp.baseLiquidity + result.baseDelta) * FlooredQuoteLiquidity
         < PoolProduct
    /\ (inputs.lp.baseLiquidity + result.baseDelta)
         * (inputs.lp.quoteLiquidity + result.quoteDelta)
         > PoolProduct

----------------------------------------------------------------------------
(* Specification of the constant-product multi-pool functions *)

MaxPools == 2

MaxCpAmount == 24

CpPools ==
    [baseLiquidity : {5, 20},
     quoteLiquidity : {8, 90},
     feeRate : PoolFeeRates]

RECURSIVE SeqsUpTo(_, _)
\* The sequences over S of length at most n.
SeqsUpTo(S, n) ==
    IF n = 0
    THEN {<<>>}
    ELSE LET shorter == SeqsUpTo(S, n - 1)
         IN  shorter \cup {Append(q, x) : q \in shorter, x \in S}

\* The inverse takes the decimals only; they play no part for pools.
CpMarket == [baseDecimals |-> 0, quoteDecimals |-> 0]

CpInputs ==
    [kind : {"cp"},
     ammState : [type : {"ConstantProduct"},
                 liquidityPools : SeqsUpTo(CpPools, MaxPools)],
     amount : 0 .. MaxCpAmount]

InitCp ==
    /\ inputs \in CpInputs
    /\ op = "none"
    /\ result = NoResult
    /\ prior = NoResult

CallGetCpBestBuyEstimate ==
    /\ inputs.kind = "cp"
    /\ op = "none"
    /\ op' = "getCpBestBuyEstimate"
    /\ result' = getCpBestBuyEstimate(inputs.amount, inputs.ammState)
    /\ UNCHANGED <<inputs, prior>>

CallGetCpBestSellEstimate ==
    /\ inputs.kind = "cp"
    /\ op = "none"
    /\ op' = "getCpBestSellEstimate"
    /\ result' = getCpBestSellEstimate(inputs.amount, inputs.ammState)
    /\ UNCHANGED <<inputs, prior>>

\* baseAmountToReceiveForSellingQuoteIncludingFee on the pools, no adapter.
CallCpBaseAmountToReceive ==
    /\ inputs.kind = "cp"
    /\ op = "none"
    /\ op' = "baseAmountToReceiveForSellingQuoteIncludingFee"
    /\ result' = baseAmountToReceiveForSellingQuoteIncludingFee(
                     inputs.amount, CpMarket, inputs.ammState, NoAdapter)
    /\ UNCHANGED <<inputs, prior>>

NextCp ==
    \/ CallGetCpBestBuyEstimate
    \/ CallGetCpBestSellEstimate
    \/ CallCpBaseAmountToReceive

SpecCp == InitCp /\ [][NextCp]_vars

----------------------------------------------------------------------------
(* Claims about the multi-pool functions (checked under SpecCp) *)

Pools == inputs.ammState.liquidityPools

\* The estimate of pool i for the call's amount taken as baseDelta.
PoolEstimate(i, baseDelta) ==
    estimatePoolBaseLiquidityAdjustment(Pools[i], baseDelta)

Feasible(i, baseDelta) == PoolEstimate(i, baseDelta).tag = "value"

\* What the seller gets from pool i: |quoteDelta| - |fee|.
SellProceeds(i) ==
    absBigInt(PoolEstimate(i, inputs.amount).quoteDelta)
        - absBigInt(PoolEstimate(i, inputs.amount).fee)

\* What the buyer pays to pool i: quoteDelta + fee.
BuyCost(i) ==
    PoolEstimate(i, -inputs.amount).quoteDelta
        + PoolEstimate(i, -inputs.amount).fee

\* C2: getCpBestSellEstimate returns a feasible pool that maximizes
\* notional - fee: no other feasible pool has a strictly larger notional - fee.
C2_BestSellMaximizesProceeds ==
    (op = "getCpBestSellEstimate" /\ result.tag = "value")
        => \A i \in 1 .. Len(Pools) :
               Feasible(i, inputs.amount)
                   => SellProceeds(i) <= result.notional - result.fee

\* C3: getCpBestBuyEstimate returns one of the feasible pools, its
\* notional + fee is the minimum over the feasible pools, and it returns null
\* exactly when no pool can fill buyAmount on its own.
C3_BestBuyMinimizesCost ==
    op = "getCpBestBuyEstimate"
        => LET feasible == {i \in 1 .. Len(Pools) :
                                Feasible(i, -inputs.amount)}
           IN  /\ result.tag = "null" <=> feasible = {}
               /\ result.tag = "value"
                     => /\ \E i \in feasible :
                              /\ result.pool = Pools[i]
                              /\ result.notional + result.fee = BuyCost(i)
                              /\ result.baseAmount = inputs.amount
                        /\ \A i \in feasible :
                              result.notional + result.fee <= BuyCost(i)

\* C3 witness: of two feasible pools the second is strictly cheaper and is
\* the one returned.
C3_Witness ==
    /\ op = "getCpBestBuyEstimate"
    /\ Len(Pools) = 2
    /\ Feasible(1, -inputs.amount)
    /\ Feasible(2, -inputs.amount)
    /\ BuyCost(2) < BuyCost(1)
    /\ result.tag = "value"
    /\ result.pool = Pools[2]

\* C3 witness of the null case: pools exist and none can fill the amount.
C3_WitnessNull ==
    /\ op = "getCpBestBuyEstimate"
    /\ Len(Pools) = 2
    /\ result.tag = "null"

\* The inverse of pool i on the quote amount with the pool's own fee backed
\* out.
PoolInverse(i) ==
    baseAmountToRemoveToIncreasePoolQuoteByDelta(
        Pools[i], adjustQuoteToExcludeFee(inputs.amount, Pools[i].feeRate))

\* C6: for a ConstantProduct state, baseAmountToReceiveForSellingQuote-
\* IncludingFee returns the maximum over all pools of the pool's inverse
\* result; a pool whose inverse is null does not stop the aggregation, and the
\* call returns null only if no pool contributes a positive base amount.
C6_InverseIsMaxOverPools ==
    op = "baseAmountToReceiveForSellingQuoteIncludingFee"
        => LET contributions ==
                   {PoolInverse(i).val :
                       i \in {j \in 1 .. Len(Pools) :
                                 /\ PoolInverse(j).tag = "value"
                                 /\ PoolInverse(j).val > 0}}
           IN  IF contributions = {}
               THEN result = Null
               ELSE /\ result.tag = "value"
                    /\ result.val \in contributions
                    /\ \A b \in contributions : b <= result.val

\* C6 witness: the first pool's inverse is null, the second contributes, and
\* the call returns the second pool's amount.
C6_Witness ==
    /\ op = "baseAmountToReceiveForSellingQuoteIncludingFee"
    /\ Len(Pools) = 2
    /\ PoolInverse(1).tag = "null"
    /\ PoolInverse(2).tag = "value"
    /\ PoolInverse(2).val > 0
    /\ result = PoolInverse(2)

----------------------------------------------------------------------------
(* Specification of the order-book functions *)

MaxLevels == 2

MaxClobAmount == 20

Market(baseDecimals, quoteDecimals) ==
    [baseSymbol |-> [decimals |-> baseDecimals],
     quoteSymbol |-> [decimals |-> quoteDecimals]]

ClobMarkets == {Market(1, 1), Market(2, 1)}

\* Levels as they arrive: price and size in hundredths (1.25 x 0.35,
\* 3.00 x 0.03, 3.00 x 0.35).  Every price parses to a positive amount, as a
\* price on the market's tick grid does; a size of 0.03 parses to 0 on a
\* base symbol of one decimal (a level of size zero), and on one of two
\* decimals it is a level whose notional is less than one quote unit.
BookLevels ==
    {[price |-> 125, size |-> 35],
     [price |-> 300, size |-> 3],
     [price |-> 300, size |-> 35]}

\* The order of the levels of a side is the server's; no order is assumed.
OrderBooks(levels, n) ==
    [buy : SeqsUpTo(levels, n), sell : SeqsUpTo(levels, n)]

\* Taker fee rates in pips (0 and 10 %); the maker rate is not read.
ClobFeeRates == [maker : {0}, taker : {0, 100000}]

ClobInputs ==
    [kind : {"clob"},
     market : ClobMarkets,
     orderBook : OrderBooks(BookLevels, MaxLevels),
     feeRates : ClobFeeRates,
     amount : 0 .. MaxClobAmount]

InitClob ==
    /\ inputs \in ClobInputs
    /\ op = "none"
    /\ result = NoResult
    /\ prior = NoResult

CallBaseAmountToSellToGetQuoteAmount ==
    /\ inputs.kind = "clob"
    /\ op = "none"
    /\ op' = "baseAmountToSellToGetQuoteAmountAtClobMarket"
    /\ result' = baseAmountToSellToGetQuoteAmountAtClobMarket(
                     inputs.amount, inputs.market, inputs.orderBook,
                     inputs.feeRates)
    /\ UNCHANGED <<inputs, prior>>

CallBaseAmountToGetForQuoteAmount ==
    /\ inputs.kind = "clob"
    /\ op = "none"
    /\ op' = "baseAmountToGetForQuoteAmountAtClobMarket"
    /\ result' = baseAmountToGetForQuoteAmountAtClobMarket(
                     inputs.amount, inputs.market, inputs.orderBook,
                     inputs.feeRates)
    /\ UNCHANGED <<inputs, prior>>

CallQuoteAmountToGetFromSellingBaseAmount ==
    /\ inputs.kind = "clob"
    /\ op = "none"
    /\ op' = "quoteAmountToGetFromSellingBaseAmountAtClobMarket"
    /\ result' = quoteAmountToGetFromSellingBaseAmountAtClobMarket(
                     inputs.amount, inputs.market, inputs.orderBook,
                     inputs.feeRates)
    /\ UNCHANGED <<inputs, prior>>

\* The quote amount received for selling inputs.amount is spent on the ask
\* side of the same book: baseAmountToGetForQuoteAmountAtClobMarket of it.
CallBaseAmountToGetForQuoteReceived ==
    /\ inputs.kind = "clob"
    /\ op = "quoteAmountToGetFromSellingBaseAmountAtClobMarket"
    /\ result.tag = "value"
    /\ op' = "baseAmountToGetForQuoteReceived"
    /\ prior' = result
    /\ result' = baseAmountToGetForQuoteAmountAtClobMarket(
                     result.val, inputs.market, inputs.orderBook,
                     inputs.feeRates)
    /\ UNCHANGED inputs

\* The base amount quoted for netting inputs.amount is sold into the same
\* book: quoteAmountToGetFromSellingBaseAmountAtClobMarket of it.
CallQuoteAmountToGetForBaseToSell ==
    /\ inputs.kind = "clob"
    /\ op = "baseAmountToSellToGetQuoteAmountAtClobMarket"
    /\ result.tag = "value"
    /\ op' = "quoteAmountToGetForBaseToSell"
    /\ prior' = result
    /\ result' = quoteAmountToGetFromSellingBaseAmountAtClobMarket(
                     result.val, inputs.market, inputs.orderBook,
                     inputs.feeRates)
    /\ UNCHANGED inputs

NextClob ==
    \/ CallBaseAmountToSellToGetQuoteAmount
    \/ CallBaseAmountToGetForQuoteAmount
    \/ CallQuoteAmountToGetFromSellingBaseAmount
    \/ CallBaseAmountToGetForQuoteReceived
    \/ CallQuoteAmountToGetForBaseToSell

SpecClob == InitClob /\ [][NextClob]_vars

----------------------------------------------------------------------------
(* Claims about the order-book functions (checked under SpecClob) *)

RECURSIVE SumOver(_, _)
\* The sum of f[i] for i in 1 .. n.
SumOver(f, n) == IF n = 0 THEN 0 ELSE f[n] + SumOver(f, n - 1)

\* The total size of a side, in base units of the market.
TotalSize(side, market) ==
    SumOver([i \in 1 .. Len(side) |->
                 parseUnits(side[i].size, market.baseSymbol.decimals)],
            Len(side))

\* The total notional of a side: the sum of its levels' notionals, in quote
\* units of the market.
TotalNotional(side, market) ==
    SumOver([i \in 1 .. Len(side) |->
                 (parseUnits(side[i].price, market.quoteSymbol.decimals)
                    * parseUnits(side[i].size, market.baseSymbol.decimals))
                 \div Pow10(market.baseSymbol.decimals)],
            Len(side))

\* C10: each order-book walking operation returns null if and only if the
\* request exceeds the depth of the side it walks: the base amount exceeds the
\* total bid size, or the fee-adjusted quote target exceeds the total notional
\* of the side; otherwise (a target equal to the total depth, a zero target on
\* an empty book) it returns an amount.
C10_NullIffBeyondDepth ==
    /\ op = "quoteAmountToGetFromSellingBaseAmountAtClobMarket"
          => /\ result.tag \in {"null", "value"}
             /\ result.tag = "null"
                   <=> inputs.amount
                         > TotalSize(inputs.orderBook.buy, inputs.market)
    /\ op = "baseAmountToSellToGetQuoteAmountAtClobMarket"
          => /\ result.tag \in {"null", "value"}
             /\ result.tag = "null"
                   <=> adjustQuoteToIncludeFee(
                           inputs.amount, PipsFee(inputs.feeRates.taker)).val
                         > TotalNotional(inputs.orderBook.buy, inputs.market)
    /\ op = "baseAmountToGetForQuoteAmountAtClobMarket"
          => /\ result.tag \in {"null", "value"}
             /\ result.tag = "null"
                   <=> adjustQuoteToExcludeFee(
                           inputs.amount, PipsFee(inputs.feeRates.taker))
                         > TotalNotional(inputs.orderBook.sell, inputs.market)

\* C10 witness: a base amount equal to the total size of two bid levels is
\* quoted (the book is consumed exactly).
C10_Witness ==
    /\ op = "quoteAmountToGetFromSellingBaseAmountAtClobMarket"
    /\ Len(inputs.orderBook.buy) = 2
    /\ inputs.amount = TotalSize(inputs.orderBook.buy, inputs.market)
    /\ inputs.amount > 0
    /\ result.tag = "value"

\* C10, further cases reached: S + 1 against one level of size S is null.
C10_WitnessOneLevelPlusOne ==
    /\ op = "quoteAmountToGetFromSellingBaseAmountAtClobMarket"
    /\ Len(inputs.orderBook.buy) = 1
    /\ inputs.amount = TotalSize(inputs.orderBook.buy, inputs.market) + 1
    /\ result = Null

\* C10, further cases reached: a quote target equal to the total notional of
\* two levels is quoted.
C10_WitnessQuoteTargetAtDepth ==
    /\ op = "baseAmountToSellToGetQuoteAmountAtClobMarket"
    /\ Len(inputs.orderBook.buy) = 2
    /\ adjustQuoteToIncludeFee(inputs.amount,
                               PipsFee(inputs.feeRates.taker)).val
         = TotalNotional(inputs.orderBook.buy, inputs.market)
    /\ inputs.amount > 0
    /\ result.tag = "value"

\* C10, further cases reached: a zero target on an empty book gives 0.
C10_WitnessZeroOnEmpty ==
    /\ op = "baseAmountToGetForQuoteAmountAtClobMarket"
    /\ inputs.orderBook.sell = <<>>
    /\ inputs.amount = 0
    /\ result = Value(0)

\* C11: for every base amount B that quoteAmountToGetFromSellingBaseAmountAtClobMarket
\* quotes, baseAmountToGetForQuoteAmountAtClobMarket of the quoted amount, on
\* the same book and fee rates, is non-null and at most B.
C11_RoundTripReturnsAtMostBase ==
    op = "baseAmountToGetForQuoteReceived"
        => /\ result.tag = "value"
           /\ result.val <= inputs.amount

\* The parsed prices of a side.
Prices(side, market) ==
    {parseUnits(side[i].price, market.quoteSymbol.decimals) :
         i \in 1 .. Len(side)}

\* No bid is priced above an ask.
Uncrossed ==
    \A bid \in Prices(inputs.orderBook.buy, inputs.market) :
        \A ask \in Prices(inputs.orderBook.sell, inputs.market) : bid <= ask

\* Every bid is priced below every ask.
StrictlyUncrossed ==
    \A bid \in Prices(inputs.orderBook.buy, inputs.market) :
        \A ask \in Prices(inputs.orderBook.sell, inputs.market) : bid < ask

\* C11 restricted to books where no bid is priced above an ask and whose ask
\* side fills the quoted amount: the round trip returns at most B.
C11_RoundTripUncrossed ==
    (op = "baseAmountToGetForQuoteReceived" /\ Uncrossed
        /\ result.tag = "value")
        => result.val <= inputs.amount

\* What holds of the round trip: the second call is null exactly when the
\* quote amount less the taker fee exceeds the total notional of the asks;
\* when it returns an amount on a book where no bid is priced above an ask,
\* the amount exceeds B by less than one quote unit's worth of base per ask
\* level (each consumed level's notional is floored):
\*   (result - B) * ask price < levels * 10^decimals.
C11_RoundTripBounded ==
    op = "baseAmountToGetForQuoteReceived"
        => /\ result.tag \in {"null", "value"}
           /\ result.tag = "null"
                 <=> adjustQuoteToExcludeFee(
                         prior.val, PipsFee(inputs.feeRates.taker))
                       > TotalNotional(inputs.orderBook.sell, inputs.market)
           /\ (result.tag = "value" /\ inputs.orderBook.sell = <<>>)
                 => result.val = 0
           /\ (result.tag = "value" /\ Uncrossed)
                 => \A ask \in Prices(inputs.orderBook.sell, inputs.market) :
                       (result.val - inputs.amount) * ask
                         < Len(inputs.orderBook.sell)
                             * Pow10(inputs.market.baseSymbol.decimals)

\* Reached: on a book that is not crossed the round trip returns more base
\* than was sold.
C11_RoundTripGains ==
    /\ op = "baseAmountToGetForQuoteReceived"
    /\ Uncrossed
    /\ inputs.amount > 0
    /\ result.tag = "value"
    /\ result.val > inputs.amount

\* Reached: with a taker fee, on a book that is not crossed, the round trip
\* returns less base than was sold.
C11_RoundTripLoses ==
    /\ op = "baseAmountToGetForQuoteReceived"
    /\ Uncrossed
    /\ inputs.feeRates.taker > 0
    /\ result.tag = "value"
    /\ result.val > 0
    /\ result.val < inputs.amount

RECURSIVE costOfTaking(_, _, _)
\* The notional of taking baseAmount from levels in the order the walk pops
\* them (from the end), each level's part by calculateNotional.
costOfTaking(levels, baseAmount, market) ==
    IF baseAmount = 0 \/ levels = <<>>
    THEN 0
    ELSE LET level == levels[Len(levels)]
             taken == minBigInt(level.size, baseAmount)
         IN  calculateNotional(level.price, taken, market.baseSymbol)
               + costOfTaking(SubSeq(levels, 1, Len(levels) - 1),
                              baseAmount - taken, market)

AskCost(baseAmount) ==
    costOfTaking(parseLevels(inputs.orderBook.sell, inputs.market),
                 baseAmount, inputs.market)

----------------------------------------------------------------------------
(* Specification of the composed quote functions *)

MaxAdapterLevels == 1

MaxQuotePools == 2

MaxQuoteAmount == 20

\* The AMM market; its quote symbol is the adapter market's quote symbol.
QuoteMarkets == {Market(1, 1), Market(2, 1)}

\* The adapter market (its base symbol is the asset the caller settles in).
AdapterMarket == Market(2, 1)

AdapterLevels ==
    {[price |-> 125, size |-> 35],
     [price |-> 300, size |-> 10]}

AdapterStates ==
    {NoAdapter}
    \cup {AdapterMarketState(AdapterMarket, book, rates) :
              book \in OrderBooks(AdapterLevels, MaxAdapterLevels),
              rates \in ClobFeeRates}

\* realBaseReserves < virtualBaseReserves: the curve never sells its whole
\* virtual reserve.
BondingCurveStates ==
    [type : {"BondingCurve"},
     realBaseReserves : {8, 25},
     virtualBaseReserves : {30},
     virtualQuoteReserves : {12, 40},
     feeRate : {DecimalFee(0), DecimalFee(1000000)}]

QuotePools ==
    {[baseLiquidity |-> 5, quoteLiquidity |-> 8, feeRate |-> DecimalFee(0)],
     [baseLiquidity |-> 20, quoteLiquidity |-> 90,
      feeRate |-> DecimalFee(1000000)],
     [baseLiquidity |-> 20, quoteLiquidity |-> 8,
      feeRate |-> DecimalFee(300005)]}

ConstantProductStates ==
    [type : {"ConstantProduct"},
     liquidityPools : SeqsUpTo(QuotePools, MaxQuotePools)]

QuoteInputs ==
    [kind : {"quote"},
     market : QuoteMarkets,
     ammState : BondingCurveStates \cup ConstantProductStates,
     adapterMarketState : AdapterStates,
     amount : 0 .. MaxQuoteAmount]

InitQuotes ==
    /\ inputs \in QuoteInputs
    /\ op = "none"
    /\ result = NoResult
    /\ prior = NoResult

CallQuoteAmountRequiredForBuyingBase ==
    /\ inputs.kind = "quote"
    /\ op = "none"
    /\ op' = "quoteAmountRequiredForBuyingBaseIncludingFee"
    /\ result' = quoteAmountRequiredForBuyingBaseIncludingFee(
                     inputs.amount, inputs.market, inputs.ammState,
                     inputs.adapterMarketState)
    /\ UNCHANGED <<inputs, prior>>

CallQuoteAmountToReceiveForSellingBase ==
    /\ inputs.kind = "quote"
    /\ op = "none"
    /\ op' = "quoteAmountMinusFeeToReceiveForSellingBase"
    /\ result' = quoteAmountMinusFeeToReceiveForSellingBase(
                     inputs.amount, inputs.market, inputs.ammState,
                     inputs.adapterMarketState)
    /\ UNCHANGED <<inputs, prior>>

\* The inverse takes the market as {baseDecimals, quoteDecimals}.
InverseMarket(market) ==
    [baseDecimals |-> market.baseSymbol.decimals,
     quoteDecimals |-> market.quoteSymbol.decimals]

CallBaseAmountToReceiveForSellingQuote ==
    /\ inputs.kind = "quote"
    /\ op = "none"
    /\ op' = "baseAmountToReceiveForSellingQuoteIncludingFee"
    /\ result' = baseAmountToReceiveForSellingQuoteIncludingFee(
                     inputs.amount, InverseMarket(inputs.market),
                     inputs.ammState, inputs.adapterMarketState)
    /\ UNCHANGED <<inputs, prior>>

\* The base amount quoted for inputs.amount of quote, without an adapter,
\* is priced for buying against the same AMM state:
\* quoteAmountRequiredForBuyingBaseIncludingFee of it.
CallQuoteAmountRequiredForBaseReceived ==
    /\ inputs.kind = "quote"
    /\ ~inputs.adapterMarketState.present
    /\ op = "baseAmountToReceiveForSellingQuoteIncludingFee"
    /\ result.tag = "value"
    /\ op' = "quoteAmountRequiredForBaseReceived"
    /\ prior' = result
    /\ result' = quoteAmountRequiredForBuyingBaseIncludingFee(
                     result.val, inputs.market, inputs.ammState,
                     inputs.adapterMarketState)
    /\ UNCHANGED inputs

NextQuotes ==
    \/ CallQuoteAmountRequiredForBuyingBase
    \/ CallQuoteAmountToReceiveForSellingBase
    \/ CallBaseAmountToReceiveForSellingQuote
    \/ CallQuoteAmountRequiredForBaseReceived

SpecQuotes == InitQuotes /\ [][NextQuotes]_vars

----------------------------------------------------------------------------
(* Claims about the composed quote functions (checked under SpecQuotes) *)

Adapter == inputs.adapterMarketState

EmptyAdapterBook ==
    /\ Adapter.present
    /\ Adapter.orderBook.buy = <<>>
    /\ Adapter.orderBook.sell = <<>>

ComposedOps ==
    {"quoteAmountRequiredForBuyingBaseIncludingFee",
     "quoteAmountMinusFeeToReceiveForSellingBase",
     "baseAmountToReceiveForSellingQuoteIncludingFee"}

\* The same call without an adapter.
NoAdapterBuyQuote ==
    quoteAmountRequiredForBuyingBaseIncludingFee(
        inputs.amount, inputs.market, inputs.ammState, NoAdapter)

NoAdapterSellQuote ==
    quoteAmountMinusFeeToReceiveForSellingBase(
        inputs.amount, inputs.market, inputs.ammState, NoAdapter)

NoAdapterInverse(quoteAmount) ==
    baseAmountToReceiveForSellingQuoteIncludingFee(
        quoteAmount, InverseMarket(inputs.market), inputs.ammState, NoAdapter)

ThenClob(first, second) == IF first.tag = "value" THEN second ELSE first

\* C8: with an adapter market state the composed result is the second hop
\* applied to the first hop's output (the order-book hop after the AMM for
\* the buy and sell quotes, the AMM after the order-book hop for the
\* inverse), and it is null if either hop is null.
C8_ComposedIsSecondHopOfFirst ==
    Adapter.present
        => /\ op = "quoteAmountRequiredForBuyingBaseIncludingFee"
                 => result =
                      ThenClob(NoAdapterBuyQuote,
                               baseAmountToSellToGetQuoteAmountAtClobMarket(
                                   NoAdapterBuyQuote.val, Adapter.market,
                                   Adapter.orderBook, Adapter.feeRates))
           /\ op = "quoteAmountMinusFeeToReceiveForSellingBase"
                 => result =
                      ThenClob(NoAdapterSellQuote,
                               baseAmountToGetForQuoteAmountAtClobMarket(
                                   NoAdapterSellQuote.val, Adapter.market,
                                   Adapter.orderBook, Adapter.feeRates))
           /\ op = "baseAmountToReceiveForSellingQuoteIncludingFee"
                 => LET first ==
                            quoteAmountToGetFromSellingBaseAmountAtClobMarket(
                                inputs.amount, Adapter.market,
                                Adapter.orderBook, Adapter.feeRates)
                    IN  result = ThenClob(first, NoAdapterInverse(first.val))

\* C8 witness: a sell whose AMM proceeds are positive and whose order-book
\* hop fills them: both hops return an amount.
C8_Witness ==
    /\ op = "quoteAmountMinusFeeToReceiveForSellingBase"
    /\ Adapter.present
    /\ inputs.amount > 0
    /\ NoAdapterSellQuote.tag = "value"
    /\ NoAdapterSellQuote.val > 0
    /\ result.tag = "value"
    /\ result.val > 0

\* C8, further case reached: the AMM hop fills the buy and the order book
\* cannot, so the composed buy quote is null.
C8_WitnessSecondHopNull ==
    /\ op = "quoteAmountRequiredForBuyingBaseIncludingFee"
    /\ Adapter.present
    /\ Len(Adapter.orderBook.buy) > 0
    /\ NoAdapterBuyQuote.tag = "value"
    /\ result = Null

\* C8, further case reached: the inverse through a non-empty book gives a
\* positive base amount.
C8_WitnessInverse ==
    /\ op = "baseAmountToReceiveForSellingQuoteIncludingFee"
    /\ Adapter.present
    /\ Len(Adapter.orderBook.buy) > 0
    /\ result.tag = "value"
    /\ result.val > 0

----------------------------------------------------------------------------
(* Specification of the bonding-curve functions *)

MaxCurveAmount == 30

\* Every combination of 0, 1 and 2 base and quote decimals.
CurveMarkets == {Market(bd, qd) : bd \in 0 .. 2, qd \in 0 .. 2}

\* Fee rates 0, 1 % and 10 %.  The real reserves are below the virtual ones
\* (the virtual reserves are the real ones plus the curve's offset); a curve
\* that has sold all of its base has real reserves 0.
CurveStates ==
    {state \in [type : {"BondingCurve"},
                realBaseReserves : {0, 3, 8, 25},
                virtualBaseReserves : {6, 30},
                virtualQuoteReserves : {7, 12, 40},
                feeRate : {DecimalFee(0), DecimalFee(100000),
                           DecimalFee(1000000)}] :
         state.realBaseReserves < state.virtualBaseReserves}

CurveInputs ==
    [kind : {"curve"},
     market : CurveMarkets,
     ammState : CurveStates,
     amount : 0 .. MaxCurveAmount]

InitCurve ==
    /\ inputs \in CurveInputs
    /\ op = "none"
    /\ result = NoResult
    /\ prior = NoResult

CallCurveBuyQuote ==
    /\ inputs.kind = "curve"
    /\ op = "none"
    /\ op' = "quoteAmountRequiredForBuyingBaseIncludingFee"
    /\ result' = quoteAmountRequiredForBuyingBaseIncludingFee(
                     inputs.amount, inputs.market, inputs.ammState, NoAdapter)
    /\ UNCHANGED <<inputs, prior>>

CallCurveSellQuote ==
    /\ inputs.kind = "curve"
    /\ op = "none"
    /\ op' = "quoteAmountMinusFeeToReceiveForSellingBase"
    /\ result' = quoteAmountMinusFeeToReceiveForSellingBase(
                     inputs.amount, inputs.market, inputs.ammState, NoAdapter)
    /\ UNCHANGED <<inputs, prior>>

CallCurveInverseQuote ==
    /\ inputs.kind = "curve"
    /\ op = "none"
    /\ op' = "baseAmountToReceiveForSellingQuoteIncludingFee"
    /\ result' = baseAmountToReceiveForSellingQuoteIncludingFee(
                     inputs.amount, InverseMarket(inputs.market),
                     inputs.ammState, NoAdapter)
    /\ UNCHANGED <<inputs, prior>>

\* bondingCurveCostFor(amount): the buy side passes an amount that is at most
\* the real reserves.
CallBondingCurveCostForBuying ==
    /\ inputs.kind = "curve"
    /\ op = "none"
    /\ inputs.amount <= inputs.ammState.realBaseReserves
    /\ op' = "bondingCurveCostForBuying"
    /\ result' = bondingCurveCostFor(inputs.amount, inputs.market,
                                     inputs.ammState)
    /\ UNCHANGED <<inputs, prior>>

\* bondingCurveCostFor(-amount): the sell side.
CallBondingCurveCostForSelling ==
    /\ inputs.kind = "curve"
    /\ op = "none"
    /\ op' = "bondingCurveCostForSelling"
    /\ result' = bondingCurveCostFor(-inputs.amount, inputs.market,
                                     inputs.ammState)
    /\ UNCHANGED <<inputs, prior>>

NextCurve ==
    \/ CallCurveBuyQuote
    \/ CallCurveSellQuote
    \/ CallCurveInverseQuote
    \/ CallBondingCurveCostForBuying
    \/ CallBondingCurveCostForSelling

SpecCurve == InitCurve /\ [][NextCurve]_vars

----------------------------------------------------------------------------
(* Claims about the bonding-curve functions (checked under SpecCurve) *)

Curve == inputs.ammState

CurveBuyQuote(baseAmount) ==
    quoteAmountRequiredForBuyingBaseIncludingFee(
        baseAmount, inputs.market, Curve, NoAdapter)

CurveSellQuote(baseAmount) ==
    quoteAmountMinusFeeToReceiveForSellingBase(
        baseAmount, inputs.market, Curve, NoAdapter)

CurveBuyOp ==
    inputs.kind = "curve"
        /\ op = "quoteAmountRequiredForBuyingBaseIncludingFee"

CurveSellOp ==
    inputs.kind = "curve" /\ op = "quoteAmountMinusFeeToReceiveForSellingBase"

CurveInverseOp ==
    inputs.kind = "curve"
        /\ op = "baseAmountToReceiveForSellingQuoteIncludingFee"

\* C14 as stated: for a fixed bonding-curve state and market, the buy quote
\* is strictly increasing in the base amount: for 0 < b1 < b2 the quote for
\* b1 is strictly less than the quote for b2.
C14_BuyQuoteStrictlyIncreasing ==
    (CurveBuyOp /\ inputs.amount > 0)
        => \A b2 \in inputs.amount + 1 .. MaxCurveAmount :
               result.val < CurveBuyQuote(b2).val

\* C14 amended: the buy quote is non-decreasing in the base amount, and is
\* the same for all base amounts from the real base reserves up.
C14_BuyQuoteNonDecreasing ==
    (CurveBuyOp /\ inputs.amount > 0)
        => /\ result.tag = "value"
           /\ \A b2 \in inputs.amount + 1 .. MaxCurveAmount :
                 /\ CurveBuyQuote(b2).tag = "value"
                 /\ result.val <= CurveBuyQuote(b2).val
                 /\ inputs.amount >= Curve.realBaseReserves
                       => result.val = CurveBuyQuote(b2).val

\* C14 witness: below the real reserves one more base unit costs more, and
\* two more cost the same as one more.
C14_Witness ==
    /\ CurveBuyOp
    /\ inputs.amount > 0
    /\ inputs.amount + 2 <= Curve.realBaseReserves
    /\ result.val < CurveBuyQuote(inputs.amount + 1).val
    /\ CurveBuyQuote(inputs.amount + 1).val
         = CurveBuyQuote(inputs.amount + 2).val

\* C15 as stated: for every base amount B > 0 the buy quote is strictly
\* greater than the sell quote for the same B.
C15_BuyExceedsSell ==
    (CurveBuyOp /\ inputs.amount > 0)
        => result.val > CurveSellQuote(inputs.amount).val

\* C15 amended: for every base amount B with 0 < B <= realBaseReserves the
\* buy quote is at least the sell quote for the same B.
C15_BuyAtLeastSellWithinReserves ==
    (CurveBuyOp /\ inputs.amount > 0
        /\ inputs.amount <= Curve.realBaseReserves)
        => /\ result.tag = "value"
           /\ CurveSellQuote(inputs.amount).tag = "value"
           /\ result.val >= CurveSellQuote(inputs.amount).val

\* C15 witness: within the real reserves, with a fee, buying costs more than
\* selling returns.
C15_Witness ==
    /\ CurveBuyOp
    /\ inputs.amount > 0
    /\ inputs.amount <= Curve.realBaseReserves
    /\ feeRateToBigInt(Curve.feeRate) > 0
    /\ CurveSellQuote(inputs.amount).val > 0
    /\ result.val > CurveSellQuote(inputs.amount).val

\* Reached: beyond the real reserves selling returns more than buying costs.
C15_SellExceedsBuy ==
    /\ CurveBuyOp
    /\ inputs.amount > Curve.realBaseReserves
    /\ Curve.realBaseReserves > 0
    /\ result.val < CurveSellQuote(inputs.amount).val

\* Reached: within the real reserves and without a fee, buying costs exactly
\* what selling returns.
C15_BuyEqualsSell ==
    /\ CurveBuyOp
    /\ inputs.amount > 0
    /\ inputs.amount <= Curve.realBaseReserves
    /\ result.val = CurveSellQuote(inputs.amount).val

\* The cost with the curve's fee added (buy) or taken off (sell).
CostPlusFee(cost) ==
    Value(cost.val + calculateFee(cost.val, Curve.feeRate))

CostMinusFee(cost) ==
    Value(cost.val - calculateFee(cost.val, Curve.feeRate))

\* C17 as stated: for every requested base amount >= realBaseReserves the
\* buy quote is the buy quote for exactly realBaseReserves, and the sell side
\* is not clamped (the sell quote is costed on the requested amount).
C17_BuyQuoteOfRealReserves ==
    /\ (CurveBuyOp /\ inputs.amount >= Curve.realBaseReserves)
          => result = CurveBuyQuote(Curve.realBaseReserves)
    /\ (CurveSellOp /\ inputs.amount > 0)
          => result = CostMinusFee(bondingCurveCostFor(
                                       -inputs.amount, inputs.market, Curve))

\* C17 amended: for every requested base amount > 0 the buy quote is the
\* cost of min(requested, realBaseReserves) plus the fee, so for
\* realBaseReserves > 0 every request >= realBaseReserves is quoted as
\* realBaseReserves is; with realBaseReserves = 0 it is the cost of a zero
\* amount plus the fee, while a request of 0 is quoted 0.  The sell quote is
\* costed on the requested amount.
C17_BuyClampedToRealReserves ==
    /\ (CurveBuyOp /\ inputs.amount > 0)
          => /\ result = CostPlusFee(bondingCurveCostFor(
                                         minBigInt(inputs.amount,
                                                   Curve.realBaseReserves),
                                         inputs.market, Curve))
             /\ (Curve.realBaseReserves > 0
                   /\ inputs.amount >= Curve.realBaseReserves)
                   => result = CurveBuyQuote(Curve.realBaseReserves)
    /\ (CurveBuyOp /\ inputs.amount = 0) => result = Value(0)
    /\ (CurveSellOp /\ inputs.amount > 0)
          => result = CostMinusFee(bondingCurveCostFor(
                                       -inputs.amount, inputs.market, Curve))

\* C17 witness: a request above positive real reserves is quoted as the real
\* reserves are, and less than the unclamped cost would be.
C17_Witness ==
    /\ CurveBuyOp
    /\ Curve.realBaseReserves > 0
    /\ inputs.amount > Curve.realBaseReserves
    /\ inputs.amount < Curve.virtualBaseReserves
    /\ result = CurveBuyQuote(Curve.realBaseReserves)
    /\ result.val < CostPlusFee(bondingCurveCostFor(inputs.amount,
                                                    inputs.market, Curve)).val

\* Reached: the sell quote beyond the real reserves is more than the sell
\* quote of the real reserves.
C17_SellNotClamped ==
    /\ CurveSellOp
    /\ inputs.amount > Curve.realBaseReserves
    /\ Curve.realBaseReserves > 0
    /\ result.val > CurveSellQuote(Curve.realBaseReserves).val

QuoteAmountLessFee == adjustQuoteToExcludeFee(inputs.amount, Curve.feeRate)

C18_Capped ==
    /\ CurveInverseOp
    /\ Curve.realBaseReserves > 0
    /\ result.val = Curve.realBaseReserves
    /\ (result.val + 1) * (Curve.virtualQuoteReserves + QuoteAmountLessFee)
         <= Curve.virtualBaseReserves * QuoteAmountLessFee

CostOps == {"bondingCurveCostForBuying", "bondingCurveCostForSelling"}

\* The signed base amount passed to bondingCurveCostFor.
Delta ==
    IF op = "bondingCurveCostForBuying" THEN inputs.amount ELSE -inputs.amount

\* C19: the cost returned by bondingCurveCostFor, in quote units, is never
\* less than the exact curve cost |delta| * virtualQuote / (virtualBase -
\* delta), for every combination of base and quote decimals.
C19_CostCoversCurveCost ==
    (op \in CostOps /\ result.tag = "value")
        => result.val * (Curve.virtualBaseReserves - Delta)
             >= absBigInt(Delta) * Curve.virtualQuoteReserves

\* C19 restricted to markets whose quote symbol has at least as many
\* decimals as the base symbol, where the increment 1 / 10^baseDecimals is a
\* whole number of quote units.
C19_CostCoversCurveCostFineQuote ==
    (op \in CostOps /\ result.tag = "value"
        /\ inputs.market.quoteSymbol.decimals
             >= inputs.market.baseSymbol.decimals)
        => result.val * (Curve.virtualBaseReserves - Delta)
             >= absBigInt(Delta) * Curve.virtualQuoteReserves

\* Reached: with fewer quote than base decimals the returned cost is below
\* the exact curve cost.
C19_UnderCharged ==
    /\ op = "bondingCurveCostForBuying"
    /\ inputs.amount > 0
    /\ inputs.market.quoteSymbol.decimals < inputs.market.baseSymbol.decimals
    /\ result.tag = "value"
    /\ result.val * (Curve.virtualBaseReserves - Delta)
         < absBigInt(Delta) * Curve.virtualQuoteReserves

----------------------------------------------------------------------------
(* The caller's order book and AMM state after a call *)

RECURSIVE popsOfWalkForQuoteAmount(_, _, _)
\* The number of levels.pop() calls the loop of walkForQuoteAmount makes.
popsOfWalkForQuoteAmount(levels, remainingQuote, market) ==
    IF Len(levels) > 0
    THEN LET level == levels[Len(levels)]
             popped == SubSeq(levels, 1, Len(levels) - 1)
             notionalAtLevel ==
                 calculateNotional(level.price, level.size, market.baseSymbol)
         IN  IF notionalAtLevel >= remainingQuote
             THEN 1
             ELSE 1 + popsOfWalkForQuoteAmount(
                          popped, remainingQuote - notionalAtLevel, market)
    ELSE 0

RECURSIVE popsOfWalkForBaseAmount(_, _)
\* The number of levels.pop() calls the loop of walkForBaseAmount makes.
popsOfWalkForBaseAmount(levels, remainingBaseAmount) ==
    IF Len(levels) > 0
    THEN LET level == levels[Len(levels)]
             popped == SubSeq(levels, 1, Len(levels) - 1)
         IN  IF level.size < remainingBaseAmount
             THEN 1 + popsOfWalkForBaseAmount(
                          popped, remainingBaseAmount - level.size)
             ELSE 1
    ELSE 0

\* The mutant reverses the receiver in place, as Array.prototype.reverse
\* does.
receiverAfterToReversed_InPlace(array) == toReversed(array)

\* orderBook.buy after orderBook.buy.toReversed(): toReversed returns a new
\* array and leaves its receiver as it was.
receiverAfterToReversed(array) == array

\* The mutant pops the receiver itself, as a loop over "levels =
\* orderBook.sell" would.
receiverAfterMapAndPops_InPlace(array, pops) ==
    SubSeq(array, 1, Len(array) - pops)

\* The array that map was called on, after the loop: map returns a new array
\* of new objects, "levels", and it is levels that the loop pops.
receiverAfterMapAndPops(array, pops) == array

orderBookAfterBaseAmountToSellToGetQuoteAmount(quoteAmount, market, orderBook, feeRates) ==
    LET levels == parseLevels(toReversed(orderBook.buy), market)
        remainingQuote ==
            adjustQuoteToIncludeFee(quoteAmount, PipsFee(feeRates.taker))
        pops == IF remainingQuote.tag = "throw"
                THEN 0
                ELSE popsOfWalkForQuoteAmount(levels, remainingQuote.val,
                                              market)
    IN  [orderBook EXCEPT
            !.buy = receiverAfterMapAndPops(receiverAfterToReversed(@), pops)]

orderBookAfterBaseAmountToGetForQuoteAmount(quoteAmount, market, orderBook, feeRates) ==
    LET levels == parseLevels(orderBook.sell, market)
        remainingQuote ==
            adjustQuoteToExcludeFee(quoteAmount, PipsFee(feeRates.taker))
        pops == popsOfWalkForQuoteAmount(levels, remainingQuote, market)
    IN  [orderBook EXCEPT !.sell = receiverAfterMapAndPops(@, pops)]

orderBookAfterQuoteAmountToGetFromSellingBaseAmount(baseAmount, market, orderBook, feeRates) ==
    LET levels == parseLevels(toReversed(orderBook.buy), market)
        pops == popsOfWalkForBaseAmount(levels, baseAmount)
    IN  [orderBook EXCEPT
            !.buy = receiverAfterMapAndPops(receiverAfterToReversed(@), pops)]

\* The adapter market state after quoteAmountRequiredForBuyingBaseIncludingFee:
\* the order-book function is reached when the amount is not zero, the AMM
\* gave a quote and an adapter was supplied.
adapterAfterQuoteAmountRequiredForBuyingBase(baseAmount, market, ammState, adapterMarketState) ==
    IF baseAmount # 0 /\ adapterMarketState.present
          /\ ammQuoteRequiredForBuyingBase(baseAmount, market,
                                           ammState).tag = "value"
    THEN [adapterMarketState EXCEPT
             !.orderBook =
                 orderBookAfterBaseAmountToSellToGetQuoteAmount(
                     ammQuoteRequiredForBuyingBase(baseAmount, market,
                                                   ammState).val,
                     adapterMarketState.market, @,
                     adapterMarketState.feeRates)]
    ELSE adapterMarketState

adapterAfterQuoteAmountToReceiveForSellingBase(baseAmount, market, ammState, adapterMarketState) ==
    IF baseAmount # 0 /\ adapterMarketState.present
          /\ ammQuoteToReceiveForSellingBase(baseAmount, market,
                                             ammState).tag = "value"
    THEN [adapterMarketState EXCEPT
             !.orderBook =
                 orderBookAfterBaseAmountToGetForQuoteAmount(
                     ammQuoteToReceiveForSellingBase(baseAmount, market,
                                                     ammState).val,
                     adapterMarketState.market, @,
                     adapterMarketState.feeRates)]
    ELSE adapterMarketState

adapterAfterBaseAmountToReceiveForSellingQuote(quoteAmount, adapterMarketState) ==
    IF adapterMarketState.present
    THEN [adapterMarketState EXCEPT
             !.orderBook =
                 orderBookAfterQuoteAmountToGetFromSellingBaseAmount(
                     quoteAmount, adapterMarketState.market, @,
                     adapterMarketState.feeRates)]
    ELSE adapterMarketState

----------------------------------------------------------------------------
(* Specification of repeated calls on the same order book and AMM state *)

MaxFrameLevels == 2

MaxFrameAmount == 8

FrameLevels ==
    {[price |-> 125, size |-> 35],
     [price |-> 300, size |-> 10]}

FrameAdapters ==
    {NoAdapter}
    \cup {AdapterMarketState(AdapterMarket, book, rates) :
              book \in OrderBooks(FrameLevels, MaxFrameLevels),
              rates \in [maker : {0}, taker : {100000}]}

FrameAmmStates ==
    {[type |-> "BondingCurve", realBaseReserves |-> 25,
      virtualBaseReserves |-> 30, virtualQuoteReserves |-> 40,
      feeRate |-> DecimalFee(100000)],
     [type |-> "ConstantProduct",
      liquidityPools |->
          <<[baseLiquidity |-> 20, quoteLiquidity |-> 90,
             feeRate |-> DecimalFee(1000000)],
            [baseLiquidity |-> 20, quoteLiquidity |-> 8,
             feeRate |-> DecimalFee(300005)]>>]}

FrameInputs ==
    [kind : {"frame"},
     market : {Market(1, 1)},
     ammState : FrameAmmStates,
     adapterMarketState : FrameAdapters,
     amount : 0 .. MaxFrameAmount]

InitFrame ==
    /\ inputs \in FrameInputs
    /\ op = "none"
    /\ result = NoResult
    /\ prior = NoResult

\* Each function is called, and called again, on the objects the caller
\* holds: inputs is what those objects contain after the call, prior the
\* result of the call before.
AgainBaseAmountToSellToGetQuoteAmount ==
    /\ inputs.kind = "frame"
    /\ inputs.adapterMarketState.present
    /\ op \in {"none", "baseAmountToSellToGetQuoteAmountAtClobMarket"}
    /\ op' = "baseAmountToSellToGetQuoteAmountAtClobMarket"
    /\ prior' = result
    /\ result' = baseAmountToSellToGetQuoteAmountAtClobMarket(
                     inputs.amount, inputs.adapterMarketState.market,
                     inputs.adapterMarketState.orderBook,
                     inputs.adapterMarketState.feeRates)
    /\ inputs' = [inputs EXCEPT
                     !.adapterMarketState.orderBook =
                         orderBookAfterBaseAmountToSellToGetQuoteAmount(
                             inputs.amount, inputs.adapterMarketState.market,
                             @, inputs.adapterMarketState.feeRates)]

AgainBaseAmountToGetForQuoteAmount ==
    /\ inputs.kind = "frame"
    /\ inputs.adapterMarketState.present
    /\ op \in {"none", "baseAmountToGetForQuoteAmountAtClobMarket"}
    /\ op' = "baseAmountToGetForQuoteAmountAtClobMarket"
    /\ prior' = result
    /\ result' = baseAmountToGetForQuoteAmountAtClobMarket(
                     inputs.amount, inputs.adapterMarketState.market,
                     inputs.adapterMarketState.orderBook,
                     inputs.adapterMarketState.feeRates)
    /\ inputs' = [inputs EXCEPT
                     !.adapterMarketState.orderBook =
                         orderBookAfterBaseAmountToGetForQuoteAmount(
                             inputs.amount, inputs.adapterMarketState.market,
                             @, inputs.adapterMarketState.feeRates)]

AgainQuoteAmountToGetFromSellingBaseAmount ==
    /\ inputs.kind = "frame"
    /\ inputs.adapterMarketState.present
    /\ op \in {"none", "quoteAmountToGetFromSellingBaseAmountAtClobMarket"}
    /\ op' = "quoteAmountToGetFromSellingBaseAmountAtClobMarket"
    /\ prior' = result
    /\ result' = quoteAmountToGetFromSellingBaseAmountAtClobMarket(
                     inputs.amount, inputs.adapterMarketState.market,
                     inputs.adapterMarketState.orderBook,
                     inputs.adapterMarketState.feeRates)
    /\ inputs' = [inputs EXCEPT
                     !.adapterMarketState.orderBook =
                         orderBookAfterQuoteAmountToGetFromSellingBaseAmount(
                             inputs.amount, inputs.adapterMarketState.market,
                             @, inputs.adapterMarketState.feeRates)]

\* The AMM functions read the fields of ammState and of its pools and assign
\* to none of them; the adapter's order book goes through the order-book
\* function of the second hop.
AgainQuoteAmountRequiredForBuyingBase ==
    /\ inputs.kind = "frame"
    /\ op \in {"none", "quoteAmountRequiredForBuyingBaseIncludingFee"}
    /\ op' = "quoteAmountRequiredForBuyingBaseIncludingFee"
    /\ prior' = result
    /\ result' = quoteAmountRequiredForBuyingBaseIncludingFee(
                     inputs.amount, inputs.market, inputs.ammState,
                     inputs.adapterMarketState)
    /\ inputs' = [inputs EXCEPT
                     !.adapterMarketState =
                         adapterAfterQuoteAmountRequiredForBuyingBase(
                             inputs.amount, inputs.market, inputs.ammState,
                             @)]

AgainQuoteAmountToReceiveForSellingBase ==
    /\ inputs.kind = "frame"
    /\ op \in {"none", "quoteAmountMinusFeeToReceiveForSellingBase"}
    /\ op' = "quoteAmountMinusFeeToReceiveForSellingBase"
    /\ prior' = result
    /\ result' = quoteAmountMinusFeeToReceiveForSellingBase(
                     inputs.amount, inputs.market, inputs.ammState,
                     inputs.adapterMarketState)
    /\ inputs' = [inputs EXCEPT
                     !.adapterMarketState =
                         adapterAfterQuoteAmountToReceiveForSellingBase(
                             inputs.amount, inputs.market, inputs.ammState,
                             @)]

AgainBaseAmountToReceiveForSellingQuote ==
    /\ inputs.kind = "frame"
    /\ op \in {"none", "baseAmountToReceiveForSellingQuoteIncludingFee"}
    /\ op' = "baseAmountToReceiveForSellingQuoteIncludingFee"
    /\ prior' = result
    /\ result' = baseAmountToReceiveForSellingQuoteIncludingFee(
                     inputs.amount, InverseMarket(inputs.market),
                     inputs.ammState, inputs.adapterMarketState)
    /\ inputs' = [inputs EXCEPT
                     !.adapterMarketState =
                         adapterAfterBaseAmountToReceiveForSellingQuote(
                             inputs.amount, @)]

NextFrame ==
    \/ AgainBaseAmountToSellToGetQuoteAmount
    \/ AgainBaseAmountToGetForQuoteAmount
    \/ AgainQuoteAmountToGetFromSellingBaseAmount
    \/ AgainQuoteAmountRequiredForBuyingBase
    \/ AgainQuoteAmountToReceiveForSellingBase
    \/ AgainBaseAmountToReceiveForSellingQuote

SpecFrame == InitFrame /\ [][NextFrame]_vars

----------------------------------------------------------------------------
(* Claims about repeated calls (checked under SpecFrame) *)

CalledAgain == op # "none" /\ prior # NoResult

C20_TwoHopRepeated ==
    /\ op = "quoteAmountRequiredForBuyingBaseIncludingFee"
    /\ CalledAgain
    /\ inputs.adapterMarketState.present
    /\ Len(inputs.adapterMarketState.orderBook.buy) = MaxFrameLevels
    /\ result.tag = "value"
    /\ result.val > 0
    /\ result = prior

----------------------------------------------------------------------------
(* Specification of the fee functions on signed amounts *)

MaxSignedNotional == 60

\* calculateFee is passed the signed quoteDelta of a pool estimate, which is
\* negative when base is added to the pool; the fee functions take any
\* bigint.
SignedFeeInputs ==
    [kind : {"fees"},
     notional : -MaxSignedNotional .. MaxSignedNotional,
     feeRate : {PipsFee(p) : p \in {0, 5000, 250000, 300000}}
               \cup {DecimalFee(d) : d \in {0, 100005, 3000000}}]

InitSignedFees ==
    /\ inputs \in SignedFeeInputs
    /\ op = "none"
    /\ result = NoResult
    /\ prior = NoResult

SpecSignedFees == InitSignedFees /\ [][NextFees]_vars

----------------------------------------------------------------------------
(* Claims about the fee functions on signed amounts (checked under
   SpecSignedFees) *)

FeePips == feeRateToBigInt(inputs.feeRate)

\* The quotient of a by a positive b with its fraction dropped.
TruncatedQuotient(a, b) == IF a >= 0 THEN a \div b ELSE -((-a) \div b)

C21_PositiveFloor ==
    /\ op = "calculateFee"
    /\ inputs.notional > 0
    /\ result.val > 0
    /\ result.val * FEE_RATE_PIPS_MAX_VALUE < inputs.notional * FeePips

----------------------------------------------------------------------------
(* Specification of the binary search, one loop iteration per step *)

MaxSearchLiquidity == 16

MaxSearchTarget == 16

\* The pool's fee rate is not read by the search.
SearchInputs ==
    [kind : {"search"},
     lp : [baseLiquidity : 1 .. MaxSearchLiquidity,
           quoteLiquidity : 1 .. MaxSearchLiquidity,
           feeRate : {DecimalFee(300005)}],
     amount : -4 .. MaxSearchTarget]

InitSearch ==
    /\ inputs \in SearchInputs
    /\ op = "none"
    /\ result = NoResult
    /\ prior = NoResult

\* baseAmountToRemoveToIncreasePoolQuoteByDelta up to the loop: the value
\* returned (or the throw) when it returns before the loop, and otherwise
\* the loop's variables as the loop is entered.
beforeSearch(lp, quoteDelta) ==
    LET newQuoteLiquidity == lp.quoteLiquidity + quoteDelta
        product == lp.baseLiquidity * lp.quoteLiquidity
    IN  IF newQuoteLiquidity = 0
        THEN Thrown
        ELSE
        LET newBaseLiquidity == BigIntDiv(product, newQuoteLiquidity)
            baseDeltaRoughEstimate == newBaseLiquidity - lp.baseLiquidity
            actual == estimatePoolBaseLiquidityAdjustment(
                          lp, baseDeltaRoughEstimate)
            baseDeltaRoughEstimateAbsoluteValue ==
                absBigInt(baseDeltaRoughEstimate)
        IN  IF newBaseLiquidity = 0
            THEN Null
            ELSE IF actual.tag = "null"
            THEN Null
            ELSE IF actual.quoteDelta = quoteDelta
            THEN Value(baseDeltaRoughEstimateAbsoluteValue)
            ELSE LET interval ==
                         searchInterval(baseDeltaRoughEstimateAbsoluteValue,
                                        actual.quoteDelta, quoteDelta)
                 IN  [tag |-> "search",
                      left |-> interval[1],
                      right |-> interval[2],
                      lastAcceptableEstimate |-> NullEstimate,
                      pc |-> "loop"]

\* "while (right - left > 1n)", unless the body broke or returned.
loopContinues(s) == s.pc = "loop" /\ s.right - s.left > 1

\* The call runs to the loop, or returns before it.
EnterSearch ==
    /\ inputs.kind = "search"
    /\ op = "none"
    /\ result' = beforeSearch(inputs.lp, inputs.amount)
    /\ op' = IF result'.tag = "search" THEN "while" ELSE "returned"
    /\ UNCHANGED <<inputs, prior>>

\* One iteration of the loop.
SearchIteration ==
    /\ inputs.kind = "search"
    /\ op = "while"
    /\ loopContinues(result)
    /\ prior' = result
    /\ result' = searchStep(inputs.lp, inputs.amount, result)
    /\ UNCHANGED <<inputs, op>>

\* The loop is left and the function returns.
SearchReturn ==
    /\ inputs.kind = "search"
    /\ op = "while"
    /\ ~loopContinues(result)
    /\ op' = "returned"
    /\ prior' = result
    /\ result' = binarySearch(inputs.lp, inputs.amount, result)
    /\ UNCHANGED inputs

NextSearch ==
    \/ EnterSearch
    \/ SearchIteration
    \/ SearchReturn

SpecSearch == InitSearch /\ [][NextSearch]_vars

\* The function runs synchronously: a step that can be taken is taken.
SpecSearchLive == SpecSearch /\ WF_vars(NextSearch)

----------------------------------------------------------------------------
(* Claims about the binary search (checked under SpecSearchLive) *)

\* An iteration leaves [left', right'] inside [left, right], and makes it
\* strictly narrower unless it breaks out or returns.
IterationShrinks ==
    (op = "while" /\ op' = "while")
        => /\ result.right - result.left > 1
           /\ result.left <= result'.left
           /\ result'.right <= result.right
           /\ result'.left <= result'.right
           /\ \/ result'.right - result'.left < result.right - result.left
              \/ result'.pc # "loop"

\* The loop is left as soon as the width is at most 1.
ExitsAtWidthOne ==
    (op = "while" /\ result.right - result.left <= 1) => op' = "returned"

\* C22: the binary search terminates for every pool and target: each
\* iteration with right - left > 1 strictly shrinks [left, right], and the
\* loop exits once the width reaches 1, or earlier on an exact match or an
\* infeasible estimate.
C22_SearchTerminates ==
    /\ <>(op = "returned")
    /\ [][IterationShrinks /\ ExitsAtWidthOne]_vars

\* C22 witness: for a positive target the loop was entered with a width of 4
\* or more, took at least two iterations to narrow the interval to width 1,
\* and returned.
C22_Witness ==
    /\ op = "returned"
    /\ inputs.amount > 0
    /\ prior.tag = "search"
    /\ prior.pc = "loop"
    /\ prior.right - prior.left = 1
    /\ beforeSearch(inputs.lp, inputs.amount).right
         - beforeSearch(inputs.lp, inputs.amount).left >= 4

\* Reached: the loop broke on an exact match.
C22_BrokeOnMatch ==
    /\ op = "returned"
    /\ prior.tag = "search"
    /\ prior.pc = "break"
    /\ prior.right - prior.left > 1

\* Reached: the loop returned null on an infeasible estimate.
C22_ReturnedOnInfeasible ==
    /\ op = "returned"
    /\ prior.tag = "search"
    /\ prior.pc = "returnNull"

----------------------------------------------------------------------------
(* Specification of the order in which the order-book functions take levels *)

MaxWalkLevels == 3

MaxWalkAmount == 12

\* Levels at three prices: 1.25 x 0.35, 2.00 x 0.10, 3.00 x 0.35.
WalkLevels ==
    {[price |-> 125, size |-> 35],
     [price |-> 200, size |-> 10],
     [price |-> 300, size |-> 35]}

\* buy is ordered best (highest) bid first, sell best (lowest) ask first.
BestFirst(orderBook) ==
    /\ \A i \in 1 .. Len(orderBook.buy) - 1 :
           orderBook.buy[i].price >= orderBook.buy[i + 1].price
    /\ \A i \in 1 .. Len(orderBook.sell) - 1 :
           orderBook.sell[i].price <= orderBook.sell[i + 1].price

WalkInputs ==
    {i \in [kind : {"walk"},
            market : {Market(2, 1)},
            orderBook : OrderBooks(WalkLevels, MaxWalkLevels),
            feeRates : [maker : {0}, taker : {0}],
            amount : {0, 1, 4, 9, MaxWalkAmount}] :
        /\ BestFirst(i.orderBook)
        /\ Len(i.orderBook.buy) + Len(i.orderBook.sell) >= MaxWalkLevels}

InitWalk ==
    /\ inputs \in WalkInputs
    /\ op = "none"
    /\ result = NoResult
    /\ prior = NoResult

\* The levels that pops successive calls of levels.pop() return, in the
\* order they are returned: the last element first.
poppedLevels(levels, pops) ==
    [k \in 1 .. pops |-> levels[Len(levels) - k + 1]]

levelsTakenByBaseAmountToSellToGetQuoteAmount(quoteAmount, market, orderBook, feeRates) ==
    LET levels == parseLevels(toReversed(orderBook.buy), market)
        remainingQuote ==
            adjustQuoteToIncludeFee(quoteAmount, PipsFee(feeRates.taker))
    IN  IF remainingQuote.tag = "throw"
        THEN <<>>
        ELSE poppedLevels(levels,
                          popsOfWalkForQuoteAmount(levels, remainingQuote.val,
                                                   market))

levelsTakenByBaseAmountToGetForQuoteAmount(quoteAmount, market, orderBook, feeRates) ==
    LET levels == parseLevels(orderBook.sell, market)
        remainingQuote ==
            adjustQuoteToExcludeFee(quoteAmount, PipsFee(feeRates.taker))
    IN  poppedLevels(levels,
                     popsOfWalkForQuoteAmount(levels, remainingQuote, market))

levelsTakenByQuoteAmountToGetFromSellingBaseAmount(baseAmount, market, orderBook, feeRates) ==
    LET levels == parseLevels(toReversed(orderBook.buy), market)
    IN  poppedLevels(levels, popsOfWalkForBaseAmount(levels, baseAmount))

\* result.taken is the sequence of levels the call popped, in order.
WalkBaseAmountToSellToGetQuoteAmount ==
    /\ inputs.kind = "walk"
    /\ op = "none"
    /\ op' = "baseAmountToSellToGetQuoteAmountAtClobMarket"
    /\ result' = [tag |-> "walk",
                  taken |-> levelsTakenByBaseAmountToSellToGetQuoteAmount(
                                inputs.amount, inputs.market,
                                inputs.orderBook, inputs.feeRates),
                  returned |-> baseAmountToSellToGetQuoteAmountAtClobMarket(
                                   inputs.amount, inputs.market,
                                   inputs.orderBook, inputs.feeRates)]
    /\ UNCHANGED <<inputs, prior>>

WalkBaseAmountToGetForQuoteAmount ==
    /\ inputs.kind = "walk"
    /\ op = "none"
    /\ op' = "baseAmountToGetForQuoteAmountAtClobMarket"
    /\ result' = [tag |-> "walk",
                  taken |-> levelsTakenByBaseAmountToGetForQuoteAmount(
                                inputs.amount, inputs.market,
                                inputs.orderBook, inputs.feeRates),
                  returned |-> baseAmountToGetForQuoteAmountAtClobMarket(
                                   inputs.amount, inputs.market,
                                   inputs.orderBook, inputs.feeRates)]
    /\ UNCHANGED <<inputs, prior>>

WalkQuoteAmountToGetFromSellingBaseAmount ==
    /\ inputs.kind = "walk"
    /\ op = "none"
    /\ op' = "quoteAmountToGetFromSellingBaseAmountAtClobMarket"
    /\ result' = [tag |-> "walk",
                  taken |-> levelsTakenByQuoteAmountToGetFromSellingBaseAmount(
                                inputs.amount, inputs.market,
                                inputs.orderBook, inputs.feeRates),
                  returned |->
                      quoteAmountToGetFromSellingBaseAmountAtClobMarket(
                          inputs.amount, inputs.market, inputs.orderBook,
                          inputs.feeRates)]
    /\ UNCHANGED <<inputs, prior>>

NextWalk ==
    \/ WalkBaseAmountToSellToGetQuoteAmount
    \/ WalkBaseAmountToGetForQuoteAmount
    \/ WalkQuoteAmountToGetFromSellingBaseAmount

SpecWalk == InitWalk /\ [][NextWalk]_vars

----------------------------------------------------------------------------
(* Claims about the order of consumption (checked under SpecWalk) *)

BidOps ==
    {"baseAmountToSellToGetQuoteAmountAtClobMarket",
     "quoteAmountToGetFromSellingBaseAmountAtClobMarket"}

Bids == parseLevels(inputs.orderBook.buy, inputs.market)

Asks == parseLevels(inputs.orderBook.sell, inputs.market)

\* The k-th level taken is the k-th element of the array counted from its
\* end.
TakenFromLast(array) ==
    /\ Len(result.taken) <= Len(array)
    /\ \A k \in 1 .. Len(result.taken) :
           result.taken[k] = array[Len(array) - k + 1]

\* The k-th level taken is the k-th element of the array.
TakenFromFirst(array) ==
    /\ Len(result.taken) <= Len(array)
    /\ \A k \in 1 .. Len(result.taken) :
           result.taken[k] = array[k]

\* C23 as stated: with buy ordered best bid first, the two functions that
\* walk the bids take levels from the worst (last) bid toward the best, and
\* baseAmountToGetForQuoteAmountAtClobMarket takes the sell array from its
\* last element toward its first.
C23_BidsTakenWorstFirst ==
    /\ op \in BidOps => TakenFromLast(Bids)
    /\ op = "baseAmountToGetForQuoteAmountAtClobMarket"
          => TakenFromLast(Asks)

\* C23 amended: with buy ordered best bid first, the two functions that walk
\* the bids take levels from the best (first) bid toward the worst, so the
\* prices taken never rise; baseAmountToGetForQuoteAmountAtClobMarket takes
\* the sell array from its last element toward its first.
C23_BidsTakenBestFirst ==
    /\ op \in BidOps
          => /\ TakenFromFirst(Bids)
             /\ \A k \in 1 .. Len(result.taken) - 1 :
                    result.taken[k].price >= result.taken[k + 1].price
    /\ op = "baseAmountToGetForQuoteAmountAtClobMarket"
          => TakenFromLast(Asks)

\* C23 witness: two bids at different prices were taken, the higher first.
C23_Witness ==
    /\ op \in BidOps
    /\ Len(result.taken) >= 2
    /\ result.taken[1].price > result.taken[2].price
    /\ result.returned.tag = "value"

\* Reached: two asks at different prices were taken, the higher (the last
\* of the sell array) first.
C23_AsksTakenLastFirst ==
    /\ op = "baseAmountToGetForQuoteAmountAtClobMarket"
    /\ Len(result.taken) >= 2
    /\ result.taken[1].price > result.taken[2].price
    /\ result.returned.tag = "value"

----------------------------------------------------------------------------
(* More claims about the single-pool functions (checked under SpecPool) *)

\* The base delta of the estimate call made.
EstimateBaseDelta ==
    IF op = "estimateRemoveBase" THEN -inputs.amount ELSE inputs.amount

NewBaseLiquidity == inputs.lp.baseLiquidity + EstimateBaseDelta

\* C24: estimatePoolBaseLiquidityAdjustment(pool, baseDelta) is null when
\* baseLiquidity + baseDelta <= 0 or when
\* floor(baseLiquidity * quoteLiquidity / (baseLiquidity + baseDelta)) is 0;
\* otherwise quoteDelta is that floor - quoteLiquidity + 1, the +1 also when
\* the division is exact, and fee is calculateFee(quoteDelta, feeRate), the
\* truncated quotient quoteDelta * pips / 1,000,000.
C24_EstimateShape ==
    op \in EstimateOps
        => IF NewBaseLiquidity <= 0
           THEN result = NullEstimate
           ELSE IF PoolProduct \div NewBaseLiquidity = 0
           THEN result = NullEstimate
           ELSE /\ result.tag = "value"
                /\ result.baseDelta = EstimateBaseDelta
                /\ result.quoteDelta
                     = PoolProduct \div NewBaseLiquidity
                         - inputs.lp.quoteLiquidity + 1
                /\ result.fee
                     = TruncatedQuotient(
                           result.quoteDelta
                             * feeRateToBigInt(inputs.lp.feeRate),
                           FEE_RATE_PIPS_MAX_VALUE)

\* C24 witness: base leaves the pool, the division is exact, the quote delta
\* is the exact difference plus one and a fee is charged on it.
C24_Witness ==
    /\ op = "estimateRemoveBase"
    /\ inputs.amount > 0
    /\ result.tag = "value"
    /\ NewBaseLiquidity * (PoolProduct \div NewBaseLiquidity) = PoolProduct
    /\ result.quoteDelta
         = PoolProduct \div NewBaseLiquidity - inputs.lp.quoteLiquidity + 1
    /\ result.fee > 0

\* Reached: the floored quotient is 0 and the estimate is null.
C24_NullOnZeroQuote ==
    /\ op = "estimateAddBase"
    /\ NewBaseLiquidity > PoolProduct
    /\ result = NullEstimate

\* Reached: all the base, or more, would leave and the estimate is null.
C24_NullOnNoBase ==
    /\ op = "estimateRemoveBase"
    /\ NewBaseLiquidity <= 0
    /\ result = NullEstimate

----------------------------------------------------------------------------
(* More claims about the composed quote functions (checked under
   SpecQuotes) *)

\* C25: without an adapter, for every AMM state and every quote amount Q for
\* which b = baseAmountToReceiveForSellingQuoteIncludingFee(Q) is non-null
\* and positive, quoteAmountRequiredForBuyingBaseIncludingFee(b) is non-null
\* and at most Q.
C25_BuyingQuotedBaseCostsAtMostQuote ==
    (op = "quoteAmountRequiredForBaseReceived" /\ prior.val > 0)
        => /\ result.tag = "value"
           /\ result.val <= inputs.amount

\* C25 restricted to constant-product states.
C25_ConstantProductOnly ==
    (op = "quoteAmountRequiredForBaseReceived" /\ prior.val > 0
        /\ inputs.ammState.type = "ConstantProduct")
        => /\ result.tag = "value"
           /\ result.val <= inputs.amount

\* What holds on a bonding curve: the cost exceeds Q by at most the
\* increment and the fee on it.
C25_BondingCurveWithinIncrement ==
    (op = "quoteAmountRequiredForBaseReceived" /\ prior.val > 0
        /\ inputs.ammState.type = "BondingCurve")
        => /\ result.tag = "value"
           /\ result.val <= inputs.amount + 2

\* Reached: on a bonding curve the base amount quoted for Q costs more than
\* Q to buy.
C25_CostsMore ==
    /\ op = "quoteAmountRequiredForBaseReceived"
    /\ inputs.ammState.type = "BondingCurve"
    /\ prior.val > 0
    /\ prior.val < inputs.ammState.realBaseReserves
    /\ result.tag = "value"
    /\ result.val > inputs.amount

\* What quoteAmountMinusFeeToReceiveForSellingBase takes as quoteToReceive
\* when the pool of inputs is the only pool: |notional - fee| of its sell
\* estimate.
SinglePoolSellProceeds ==
    ammQuoteToReceiveForSellingBase(
        inputs.amount, CpMarket,
        [type |-> "ConstantProduct", liquidityPools |-> <<inputs.lp>>])

\* C26: whenever estimatePoolBaseLiquidityAdjustment succeeds, the pool's
\* product with the signed quoteDelta applied is strictly above its
\* pre-trade value; for a sell (baseDelta > 0) quoteDelta is <= 0, and the
\* sell proceeds |notional - fee| are non-negative and at most
\* quoteLiquidity - floor(baseLiquidity * quoteLiquidity / (baseLiquidity +
\* baseDelta)).
C26_ProductStrictlyGrows ==
    (op \in EstimateOps /\ result.tag = "value")
        => /\ (inputs.lp.baseLiquidity + result.baseDelta)
                * (inputs.lp.quoteLiquidity + result.quoteDelta)
                > PoolProduct
           /\ result.baseDelta > 0
                 => /\ result.quoteDelta <= 0
                    /\ SinglePoolSellProceeds.tag = "value"
                    /\ SinglePoolSellProceeds.val >= 0
                    /\ SinglePoolSellProceeds.val
                         <= inputs.lp.quoteLiquidity - FlooredQuoteLiquidity

\* C26 witness: a sell into a pool with a fee, whose proceeds are positive
\* and below quoteLiquidity less the floored quotient.
C26_Witness ==
    /\ op = "estimateAddBase"
    /\ result.tag = "value"
    /\ result.baseDelta > 0
    /\ result.quoteDelta < 0
    /\ result.fee < 0
    /\ SinglePoolSellProceeds.val > 0
    /\ SinglePoolSellProceeds.val < inputs.lp.quoteLiquidity - FlooredQuoteLiquidity - 1

\* Reached: a base delta of zero succeeds with a quote delta of 1.
C26_ZeroDelta ==
    /\ op \in EstimateOps
    /\ inputs.amount = 0
    /\ result.tag = "value"
    /\ result.quoteDelta = 1

ZeroBaseOps ==
    {"quoteAmountRequiredForBuyingBaseIncludingFee",
     "quoteAmountMinusFeeToReceiveForSellingBase"}

\* C27: quoteAmountRequiredForBuyingBaseIncludingFee and
\* quoteAmountMinusFeeToReceiveForSellingBase return 0, not null, for a base
\* amount of 0, whatever the AMM state and the adapter state (a
\* constant-product state with no pools and an adapter with an empty order
\* book included): the AMM and order-book engines are not consulted.
C27_ZeroBaseAmountGivesZero ==
    (inputs.kind = "quote" /\ op \in ZeroBaseOps /\ inputs.amount = 0)
        => result = Value(0)

\* C27 witness: a base amount of 0 on a constant-product state with no pools
\* and an adapter with an empty order book gives 0, where the AMM switch
\* alone would give null.
C27_Witness ==
    /\ op = "quoteAmountRequiredForBuyingBaseIncludingFee"
    /\ inputs.amount = 0
    /\ inputs.ammState.type = "ConstantProduct"
    /\ inputs.ammState.liquidityPools = <<>>
    /\ inputs.adapterMarketState.present
    /\ inputs.adapterMarketState.orderBook.buy = <<>>
    /\ inputs.adapterMarketState.orderBook.sell = <<>>
    /\ ammQuoteRequiredForBuyingBase(0, inputs.market, inputs.ammState) = Null
    /\ result = Value(0)

\* Reached: a base amount of 0 sold on a bonding curve gives 0, where the
\* curve cost of a zero amount is the increment.
C27_CurveNotConsulted ==
    /\ op = "quoteAmountMinusFeeToReceiveForSellingBase"
    /\ inputs.amount = 0
    /\ inputs.ammState.type = "BondingCurve"
    /\ ~inputs.adapterMarketState.present
    /\ ammQuoteToReceiveForSellingBase(0, inputs.market,
                                       inputs.ammState).val > 0
    /\ result = Value(0)

\* ---------------------------------------------------------------------------
\* The client's subscriptions (FunkybitClient.subscribe, unsubscribe,
\* restoreSubscriptions).  The Map of topic to handler array is a function
\* whose domain is the set of keys; handlers are function identities.
\* ---------------------------------------------------------------------------

\* new Map()
EmptySubscriptions == [t \in {} |-> <<>>]

\* this.subscriptions.get(stringifiedTopic) || []
topicSubscribers(subscriptions, topic) == IF topic \in DOMAIN subscriptions THEN subscriptions[topic] ELSE <<>>

\* Array.prototype.includes
includes(array, x) == \E i \in 1..Len(array) : array[i] = x

\* Array.prototype.indexOf, counted from 1; 0 where JavaScript gives -1.
indexOf(array, x) == IF includes(array, x) THEN CHOOSE i \in 1..Len(array) : array[i] = x /\ \A j \in 1..(i - 1) : array[j] # x ELSE 0

\* array.splice(idx, 1)
splice(array, idx) == [i \in 1..(Len(array) - 1) |-> IF i < idx THEN array[i] ELSE array[i + 1]]

SubscribeMessage(topic) == [type |-> "Subscribe", topic |-> topic]

UnsubscribeMessage(topic) == [type |-> "Unsubscribe", topic |-> topic]

\* this.ws?.send(...): nothing is sent while ws is undefined.
sendSubscribeMessage(ws, topic) == IF ws = "undefined" THEN {} ELSE {SubscribeMessage(topic)}

sendUnsubscribeMessage(ws, topic) == IF ws = "undefined" THEN {} ELSE {UnsubscribeMessage(topic)}

\* The subscriptions map after subscribe(topic, handler).
subscribe(subscriptions, topic, handler) ==
    LET before == topicSubscribers(subscriptions, topic)
        after  == IF includes(before, handler) THEN before
                  ELSE Append(before, handler)
    IN  [t \in DOMAIN subscriptions \cup {topic} |->
            IF t = topic THEN after ELSE subscriptions[t]]

\* The messages subscribe(topic, handler) hands to the websocket.
sentBySubscribe(ws, subscriptions, topic) ==
    IF Len(topicSubscribers(subscriptions, topic)) = 0
    THEN sendSubscribeMessage(ws, topic)
    ELSE {}

unsubscribe_KeepsEmptyTopic(subscriptions, topic, handler) ==
    IF topic \notin DOMAIN subscriptions THEN subscriptions
    ELSE LET idx == indexOf(subscriptions[topic], handler)
         IN  IF idx = 0 THEN subscriptions
             ELSE [subscriptions EXCEPT
                      ![topic] = splice(subscriptions[topic], idx)]

\* The subscriptions map after unsubscribe(topic, handler).
unsubscribe(subscriptions, topic, handler) ==
    IF topic \notin DOMAIN subscriptions THEN subscriptions
    ELSE LET idx == indexOf(subscriptions[topic], handler)
             spliced == splice(subscriptions[topic], idx)
         IN  IF idx = 0 THEN subscriptions
             ELSE IF Len(spliced) = 0
                  THEN [t \in DOMAIN subscriptions \ {topic} |->
                           subscriptions[t]]
                  ELSE [subscriptions EXCEPT ![topic] = spliced]

\* The messages unsubscribe(topic, handler) hands to the websocket.
sentByUnsubscribe(ws, subscriptions, topic, handler) ==
    IF /\ topic \in DOMAIN subscriptions
       /\ includes(subscriptions[topic], handler)
       /\ Len(subscriptions[topic]) = 1
    THEN sendUnsubscribeMessage(ws, topic)
    ELSE {}

\* The messages restoreSubscriptions() hands to the websocket.
sentByRestoreSubscriptions(ws, subscriptions) == UNION {sendSubscribeMessage(ws, t) : t \in DOMAIN subscriptions}

\* ---------------------------------------------------------------------------
\* Specification of the subscription calls.  inputs is the client, result the
\* last call with the messages it sent, prior the client before that call.
\* ---------------------------------------------------------------------------

MaxTopics == 2

MaxHandlers == 2

Topics == {[type |-> "MarketAmmState", marketId |-> m] : m \in 1..MaxTopics}

Handlers == 1..MaxHandlers

Call(topic, handler, sent) == [tag |-> "call", topic |-> topic, handler |-> handler, sent |-> sent]

InitSubscriptions ==
    /\ inputs = [kind |-> "client", ws |-> "undefined",
                 subscriptions |-> EmptySubscriptions]
    /\ op = "none"
    /\ result = NoResult
    /\ prior = NoResult

Subscribe ==
    /\ inputs.kind = "client"
    /\ \E topic \in Topics, handler \in Handlers :
          /\ inputs' = [inputs EXCEPT !.subscriptions =
                           subscribe(inputs.subscriptions, topic, handler)]
          /\ result' = Call(topic, handler,
                            sentBySubscribe(inputs.ws, inputs.subscriptions,
                                            topic))
    /\ op' = "subscribe"
    /\ prior' = inputs

Unsubscribe ==
    /\ inputs.kind = "client"
    /\ \E topic \in Topics, handler \in Handlers :
          /\ inputs' = [inputs EXCEPT !.subscriptions =
                           unsubscribe(inputs.subscriptions, topic, handler)]
          /\ result' = Call(topic, handler,
                            sentByUnsubscribe(inputs.ws, inputs.subscriptions,
                                              topic, handler))
    /\ op' = "unsubscribe"
    /\ prior' = inputs

\* connectWebsocket builds the websocket; its onOpen and onReconnect callbacks
\* run restoreSubscriptions.
ConnectWebsocket ==
    /\ inputs.kind = "client"
    /\ inputs' = [inputs EXCEPT !.ws = "open"]
    /\ result' = [tag |-> "restore",
                  sent |-> sentByRestoreSubscriptions("open",
                                                      inputs.subscriptions)]
    /\ op' = "restoreSubscriptions"
    /\ prior' = inputs

NextSubscriptions == Subscribe \/ Unsubscribe \/ ConnectWebsocket

SpecSubscriptions == InitSubscriptions /\ [][NextSubscriptions]_vars

NoDuplicates(array) == \A i, j \in 1..Len(array) : array[i] = array[j] => i = j

HandlerCount(client, topic) == Len(topicSubscribers(client.subscriptions, topic))

\* C30: after any sequence of subscribe and unsubscribe calls no topic is
\* mapped to an empty handler list and no handler appears twice for a topic;
\* a subscribe call sends a Subscribe message only when the topic's handler
\* count goes from 0 to 1, an unsubscribe call sends an Unsubscribe message
\* only when it goes from 1 to 0, and unsubscribing a handler that is not
\* registered leaves the subscriptions unchanged and sends nothing.  When the
\* websocket opens, restoreSubscriptions sends Subscribe for the topics that
\* have a handler and for no other.
C30_SubscriptionsWellFormed ==
    inputs.kind = "client" =>
      /\ \A t \in DOMAIN inputs.subscriptions :
            /\ Len(inputs.subscriptions[t]) > 0
            /\ NoDuplicates(inputs.subscriptions[t])
      /\ (op = "subscribe" /\ result.sent # {}) =>
            /\ result.sent = {SubscribeMessage(result.topic)}
            /\ HandlerCount(prior, result.topic) = 0
            /\ HandlerCount(inputs, result.topic) = 1
      /\ (op = "unsubscribe" /\ result.sent # {}) =>
            /\ result.sent = {UnsubscribeMessage(result.topic)}
            /\ HandlerCount(prior, result.topic) = 1
            /\ HandlerCount(inputs, result.topic) = 0
      /\ (/\ op = "unsubscribe"
          /\ ~includes(topicSubscribers(prior.subscriptions, result.topic),
                       result.handler)) =>
            /\ inputs.subscriptions = prior.subscriptions
            /\ result.sent = {}
      /\ op = "restoreSubscriptions" =>
            \A message \in result.sent :
               /\ message.type = "Subscribe"
               /\ HandlerCount(inputs, message.topic) > 0

\* The last of two handlers of a topic has just been unsubscribed on an open
\* websocket after the other one was: the topic is gone and Unsubscribe sent.
C30_Witness ==
    /\ inputs.kind = "client"
    /\ op = "unsubscribe"
    /\ inputs.ws = "open"
    /\ result.sent = {UnsubscribeMessage(result.topic)}
    /\ result.topic \notin DOMAIN inputs.subscriptions
    /\ \E t \in DOMAIN inputs.subscriptions :
          Len(inputs.subscriptions[t]) = MaxHandlers

\* An unsubscribe of a handler that was never registered for a topic that
\* has another handler.
C30_UnregisteredWitness ==
    /\ inputs.kind = "client"
    /\ op = "unsubscribe"
    /\ HandlerCount(prior, result.topic) = 1
    /\ ~includes(prior.subscriptions[result.topic], result.handler)

\* ---------------------------------------------------------------------------
\* FunkybitClient.getQuote: the call subscribes a handler to the market's
\* MarketAmmState topic and polls with setInterval until the handler has
\* received a state or the wait is over.
\* ---------------------------------------------------------------------------

\* let ammState: AmmState | undefined; adapterMarketOrderBook: OrderBook |
\* undefined
Undefined == [type |-> "undefined"]

\* The closure getQuote passes to subscribe.
GetQuoteHandler == "getQuote.handler"

\* The closure subscribeToAdapterMarket passes to subscribe.
AdapterMarketHandler == "subscribeToAdapterMarket.handler"

MarketAmmStateTopic == [type |-> "MarketAmmState", marketId |-> 1]

AdapterOrderBookTopic == [type |-> "OrderBook", marketId |-> 0]

Rejected(reason) == [tag |-> reason, val |-> 0]

Settled == result.tag # "none"

\* adapterMarket().baseSymbol.name === quoteSymbol?.name: the adapter market
\* is BTC:USDC, so the adapter is used for the quotes in BTC.  The order book
\* is the client's field, undefined until an OrderBook message was handled.
adapterMarketStateOf(client) ==
    IF client.inAsset = "BTC"
    THEN AdapterMarketState(AdapterMarket, client.adapterMarketOrderBook,
                            client.feeRates)
    ELSE NoAdapter

\* The quote function the timer callback calls.  With an undefined order book
\* the composer throws a TypeError where it reaches the CLOB walk
\* (orderBook.buy / orderBook.sell on undefined), that is, after the early
\* return on a zero amount and after a null from the AMM.
quoteAmountOf(client) ==
    LET adapterMarketState == adapterMarketStateOf(client)
        quoteWith(adapter) ==
            IF client.side = "Buy"
            THEN quoteAmountRequiredForBuyingBaseIncludingFee(
                     client.amount, client.market, client.ammState, adapter)
            ELSE quoteAmountMinusFeeToReceiveForSellingBase(
                     client.amount, client.market, client.ammState, adapter)
    IN  IF /\ adapterMarketState.present
           /\ adapterMarketState.orderBook = Undefined
        THEN IF quoteWith(NoAdapter).tag = "value" /\ client.amount # 0
             THEN Thrown
             ELSE quoteWith(NoAdapter)
        ELSE quoteWith(adapterMarketState)

\* ---------------------------------------------------------------------------
\* Specification of one getQuote call on a logged-in client.  One Tick is one
\* run of the setInterval callback; the 10 seconds of the wait are
\* MaxWaitTicks runs.  inputs is the client with the call's closure, result
\* the promise, prior the outcome of the last callback.
\* ---------------------------------------------------------------------------

MaxWaitTicks == 3

MaxGetQuoteAmount == 5

GetQuoteAmmStates == FrameAmmStates \cup {[type |-> "ConstantProduct", liquidityPools |-> <<>>]}

GetQuoteOrderBooks ==
    {[buy |-> <<>>, sell |-> <<>>],
     [buy |-> <<[price |-> 125, size |-> 35]>>,
      sell |-> <<[price |-> 300, size |-> 35]>>]}

GetQuoteInputs ==
    [kind : {"getQuote"},
     market : {Market(1, 1)},
     side : {"Buy", "Sell"},
     amount : {0, MaxGetQuoteAmount},
     inAsset : {"BTC", "USDC"},
     feeRates : [maker : {0}, taker : {100000}],
     ws : {"open"},
     subscriptions : {[t \in {AdapterOrderBookTopic} |->
                          <<AdapterMarketHandler>>]},
     adapterMarketOrderBook : {Undefined},
     ammState : {Undefined},
     interval : {"none"},
     elapsed : {0}]

InitGetQuote ==
    /\ inputs \in GetQuoteInputs
    /\ op = "none"
    /\ result = NoResult
    /\ prior = NoResult

\* The synchronous part of the call: subscribe and setInterval.
GetQuote ==
    /\ inputs.kind = "getQuote"
    /\ inputs.interval = "none"
    /\ inputs' = [inputs EXCEPT
                     !.subscriptions = subscribe(inputs.subscriptions,
                                                 MarketAmmStateTopic,
                                                 GetQuoteHandler),
                     !.interval = "running"]
    /\ op' = "getQuote"
    /\ UNCHANGED <<result, prior>>

\* handleMessage of a Publish on the market's MarketAmmState topic: the
\* handlers mapped to the topic are called, and the call's handler stores the
\* state.
ReceiveMarketAmmState ==
    /\ inputs.kind = "getQuote"
    /\ \E ammState \in GetQuoteAmmStates :
          inputs' = IF includes(topicSubscribers(inputs.subscriptions,
                                                  MarketAmmStateTopic),
                                GetQuoteHandler)
                    THEN [inputs EXCEPT !.ammState = ammState]
                    ELSE inputs
    /\ op' = "handleMessage MarketAmmState"
    /\ UNCHANGED <<result, prior>>

\* handleMessage of a Publish on the adapter market's OrderBook topic.
ReceiveOrderBook ==
    /\ inputs.kind = "getQuote"
    /\ \E orderBook \in GetQuoteOrderBooks :
          inputs' = IF includes(topicSubscribers(inputs.subscriptions,
                                                  AdapterOrderBookTopic),
                                AdapterMarketHandler)
                    THEN [inputs EXCEPT !.adapterMarketOrderBook = orderBook]
                    ELSE inputs
    /\ op' = "handleMessage OrderBook"
    /\ UNCHANGED <<result, prior>>

\* new Date().getTime() - start > 1000 * 10, in runs of the callback.
waitIsOver(elapsed) == elapsed > MaxWaitTicks

\* One run of the setInterval callback on the client and the promise, given
\* what the quote function returns on the client's state: the client and the
\* promise after it.  An exception thrown by the quote function leaves the
\* callback before unsubscribe, clearInterval and the check of the wait;
\* reject and resolve on a settled promise do nothing.
intervalCallback(client, promise, quoteAmount) ==
    LET elapsed == IF waitIsOver(client.elapsed) THEN client.elapsed
                   ELSE client.elapsed + 1
        settled == promise.tag # "none"
    IN  IF client.ammState = Undefined
        THEN [client  |-> [client EXCEPT
                              !.elapsed = elapsed,
                              !.interval = IF waitIsOver(elapsed)
                                           THEN "cleared" ELSE @],
              promise |-> IF waitIsOver(elapsed) /\ ~settled
                          THEN Rejected("Timeout getting amm state")
                          ELSE promise,
              quoteAmount |-> NoResult]
        ELSE IF quoteAmount = Thrown
        THEN [client  |-> [client EXCEPT !.elapsed = elapsed],
              promise |-> promise,
              quoteAmount |-> Thrown]
        ELSE [client  |-> [client EXCEPT
                              !.elapsed = elapsed,
                              !.subscriptions =
                                  unsubscribe(client.subscriptions,
                                              MarketAmmStateTopic,
                                              GetQuoteHandler),
                              !.interval = "cleared"],
              promise |-> IF settled THEN promise
                          ELSE IF quoteAmount = Null
                          THEN Rejected("Unable to get quote")
                          ELSE quoteAmount,
              quoteAmount |-> quoteAmount]

\* The outcomes of one run of the callback in the current state; the quote
\* function is called once, and only when an AMM state was received.
CallbackOutcomes ==
    {intervalCallback(inputs, result, quoteAmount) :
        quoteAmount \in {IF inputs.ammState = Undefined THEN NoResult
                         ELSE quoteAmountOf(inputs)}}

Tick ==
    /\ inputs.kind = "getQuote"
    /\ inputs.interval = "running"
    /\ \E after \in CallbackOutcomes :
          /\ inputs' = after.client
          /\ result' = after.promise
          /\ prior' = after.quoteAmount
    /\ op' = "tick"

NextGetQuote == GetQuote \/ ReceiveMarketAmmState \/ ReceiveOrderBook \/ Tick

SpecGetQuote == InitGetQuote /\ [][NextGetQuote]_vars

\* ENABLED <<Tick>>_vars as a state predicate: the timer runs and a run of
\* the callback changes the state.
TickChangesState ==
    /\ inputs.kind = "getQuote"
    /\ inputs.interval = "running"
    /\ \E after \in CallbackOutcomes :
          ~ /\ op = "tick"
            /\ after.client = inputs
            /\ after.promise = result
            /\ after.quoteAmount = prior

\* WF_vars(Tick), with ENABLED <<Tick>>_vars written as TickChangesState.
TickIsFair == ([]<>~TickChangesState) \/ ([]<><<Tick>>_vars)

\* setInterval runs the callback again and again until clearInterval; the
\* messages may or may not arrive.
SpecGetQuoteLive == SpecGetQuote /\ WF_vars(GetQuote) /\ TickIsFair

HandlerStillSubscribed == includes(topicSubscribers(inputs.subscriptions, MarketAmmStateTopic), GetQuoteHandler)

\* C28: every getQuote call eventually settles and stops its polling timer,
\* whichever of the MarketAmmState and OrderBook messages arrive and in
\* whichever order, a quote in BTC requested before any adapter order book
\* was received included.
C28_GetQuoteSettlesAndStopsTimer ==
    (inputs.kind = "getQuote" /\ inputs.interval = "running")
        ~> (Settled /\ inputs.interval = "cleared")

\* The call settles and stops its timer whenever the quote is in USDC, or the
\* amount is 0, or the adapter order book arrived before the AMM state.
C28_SettlesUnlessBookMissing ==
    (/\ inputs.kind = "getQuote"
     /\ inputs.interval = "running"
     /\ \/ inputs.inAsset = "USDC"
        \/ inputs.amount = 0
        \/ inputs.adapterMarketOrderBook # Undefined)
        ~> (Settled /\ inputs.interval = "cleared")

\* The callback has thrown on the undefined order book after the wait was
\* over: the promise is pending and the timer still runs.
C28_ThrowsPastTheWait ==
    /\ inputs.kind = "getQuote"
    /\ op = "tick"
    /\ prior = Thrown
    /\ inputs.inAsset = "BTC"
    /\ inputs.adapterMarketOrderBook = Undefined
    /\ waitIsOver(inputs.elapsed)
    /\ ~Settled
    /\ inputs.interval = "running"

\* A quote in BTC resolved through the adapter order book.
C28_ResolvedInBtc ==
    /\ inputs.kind = "getQuote"
    /\ inputs.inAsset = "BTC"
    /\ result.tag = "value"
    /\ result.val > 0
    /\ inputs.interval = "cleared"

\* C29: once the getQuote promise has settled, by resolving, by rejecting
\* with "Unable to get quote" or by rejecting on timeout, the handler the
\* call registered is no longer subscribed to the MarketAmmState topic.
C29_HandlerRemovedOnceSettled ==
    (inputs.kind = "getQuote" /\ Settled) => ~HandlerStillSubscribed

\* The handler is removed when the promise resolved or was rejected with
\* "Unable to get quote".
C29_HandlerRemovedUnlessTimeout ==
    (/\ inputs.kind = "getQuote"
     /\ Settled
     /\ result.tag # "Timeout getting amm state") => ~HandlerStillSubscribed

\* The promise was rejected on timeout, the timer is stopped and the handler
\* is still subscribed; it still receives a state afterwards.
C29_LeftSubscribedOnTimeout ==
    /\ inputs.kind = "getQuote"
    /\ result = Rejected("Timeout getting amm state")
    /\ inputs.interval = "cleared"
    /\ HandlerStillSubscribed
    /\ inputs.ammState # Undefined

\* The promise was rejected with "Unable to get quote" and the handler is
\* gone.
C29_RemovedOnUnable ==
    /\ inputs.kind = "getQuote"
    /\ result = Rejected("Unable to get quote")
    /\ ~HandlerStillSubscribed

====
